---- MODULE Spec2Model ----
(***************************************************************************)
(* devLOGS feed loader (parser.js) and content tag processor (index.js).   *)
(*                                                                         *)
(* A feed text is represented by the DOM that DOMParser builds from it,    *)
(* reduced to what the selectors of parser.js can observe:                 *)
(*   parsererror  querySelector('parsererror') finds an element            *)
(*   feed         querySelector('feed') finds an element                   *)
(*   channel      "none": querySelector('channel') finds nothing;          *)
(*                "elsewhere": a channel exists, none is a child of a feed;*)
(*                "inFeed": querySelector('feed > channel') finds one      *)
(*   items        the item elements below that feed > channel element, in  *)
(*                document order                                           *)
(*   strayItems   the number of item elements anywhere else                *)
(* An element looked up with querySelector is <<>> when absent and <<t>>   *)
(* (t its textContent) when present.                                       *)
(***************************************************************************)
EXTENDS Integers, Sequences, FiniteSets, TLC

\* ------------------------------------------------------------------ bounds
MaxItems == 2
MaxStray == 1

\* ------------------------------------------------------------------ documents
Opt(S) == {<<>>} \cup {<<s>> : s \in S}

TitleTexts == {"", "T"}
IdTexts == {"", "1", "2"}

ItemElements ==
  [title: Opt(TitleTexts), id: Opt(IdTexts), type: {<<>>}, heading: {<<>>},
   description: {<<>>}, content: {<<>>}, pubDate: {<<>>}]

ItemSeqs == UNION {[1..n -> ItemElements] : n \in 0..MaxItems}

Docs ==
  {d \in [parsererror: BOOLEAN, feed: BOOLEAN,
          channel: {"none", "elsewhere", "inFeed"},
          items: ItemSeqs, strayItems: 0..MaxStray] :
     /\ d.channel = "inFeed" => d.feed
     /\ d.items # <<>> => d.channel = "inFeed"}

\* A call that threw, and a call that returned.
Threw(msg) == [ok |-> FALSE, error |-> msg]
Returned(v) == [ok |-> TRUE, value |-> v]

\* Array.prototype.join(', ')
RECURSIVE Join(_)
Join(e) ==
  IF Len(e) = 0 THEN ""
  ELSE IF Len(e) = 1 THEN e[1]
  ELSE e[1] \o ", " \o Join(Tail(e))

\* elem?.textContent || ''
TextOrEmpty(e) == IF e = <<>> THEN "" ELSE e[1]

\* ------------------------------------------------------------------ parseItem
\* a parseItem that would always build the pair
PubDateOf_AlwaysPair(item) ==
  IF item.pubDate = <<>> THEN [date |-> "", timezone |-> ""]
  ELSE [date |-> TextOrEmpty(item.pubDate[1].date),
        timezone |-> TextOrEmpty(item.pubDate[1].timezone)]

\* pubDate ? {date, timezone} : {} (the empty object is the empty record <<>>)
PubDateOf(item) ==
  IF item.pubDate = <<>> THEN <<>>
  ELSE [date |-> TextOrEmpty(item.pubDate[1].date),
        timezone |-> TextOrEmpty(item.pubDate[1].timezone)]

RecordOf(item) ==
  [title |-> item.title[1],
   id |-> item.id[1],
   type |-> TextOrEmpty(item.type),
   heading |-> TextOrEmpty(item.heading),
   description |-> TextOrEmpty(item.description),
   content |-> TextOrEmpty(item.content),
   pubDate |-> PubDateOf(item)]

ItemLacksRequired(item) == item.title = <<>> \/ item.id = <<>>

parseItem(item) ==
  IF ItemLacksRequired(item) THEN Threw("Missing required title/id in <item>")
  ELSE Returned(RecordOf(item))

\* a map that would build the list back to front
RECURSIVE MapParseItem_Reversed(_, _)
MapParseItem_Reversed(items, acc) ==
  IF items = <<>> THEN Returned(acc)
  ELSE LET r == parseItem(Head(items))
       IN IF r.ok THEN MapParseItem_Reversed(Tail(items), <<r.value>> \o acc)
          ELSE r

\* a map that would skip an item lacking title/id instead of failing the load
RECURSIVE MapParseItem_SkipInvalid(_, _)
MapParseItem_SkipInvalid(items, acc) ==
  IF items = <<>> THEN Returned(acc)
  ELSE LET r == parseItem(Head(items))
       IN IF r.ok THEN MapParseItem_SkipInvalid(Tail(items), Append(acc, r.value))
          ELSE MapParseItem_SkipInvalid(Tail(items), acc)

\* a map that would keep only the first item of every id
RECURSIVE MapParseItem_FirstOfEachId(_, _)
MapParseItem_FirstOfEachId(items, acc) ==
  IF items = <<>> THEN Returned(acc)
  ELSE LET r == parseItem(Head(items))
       IN IF ~r.ok THEN r
          ELSE IF \E k \in 1..Len(acc) : acc[k].id = r.value.id
          THEN MapParseItem_FirstOfEachId(Tail(items), acc)
          ELSE MapParseItem_FirstOfEachId(Tail(items), Append(acc, r.value))

\* Array.from(items).map(parseItem): the first item that throws ends the map.
RECURSIVE MapParseItem(_, _)
MapParseItem(items, acc) ==
  IF items = <<>> THEN Returned(acc)
  ELSE LET r == parseItem(Head(items))
       IN IF r.ok THEN MapParseItem(Tail(items), Append(acc, r.value))
          ELSE r

\* ------------------------------------------------------------------ worker source
validateXMLStructure(doc) ==
  (IF doc.feed THEN <<>> ELSE <<"Missing <feed>">>)
  \o (IF doc.channel # "none" THEN <<>> ELSE <<"Missing <channel>">>)
  \o (IF Len(doc.items) + doc.strayItems = 0 THEN <<"No <item> elements">> ELSE <<>>)

\* self.onmessage in the worker; the value is the message it posts back.
WorkerOnMessage(doc, hasDOMParser) ==
  IF ~hasDOMParser THEN Threw("DOMParser not available in worker")
  ELSE LET errors == validateXMLStructure(doc)
       IN IF Len(errors) > 0 THEN Threw("Invalid XML: " \o Join(errors))
          ELSE IF doc.channel # "inFeed" THEN Threw("No channel element found")
          ELSE MapParseItem(doc.items, <<>>)

\* ------------------------------------------------------------------ main thread
ParserErrorText == "<parsererror text>"

parseXMLMainThread(doc) ==
  IF doc.parsererror THEN Threw("XML parse error: " \o ParserErrorText)
  ELSE IF doc.channel # "inFeed" THEN Threw("No <feed><channel> found")
  ELSE IF Len(doc.items) = 0 THEN Threw("No <item> elements found")
  ELSE MapParseItem(doc.items, <<>>)

\* ------------------------------------------------------------------ state
VARIABLES
  feed,            \* the document behind the url
  pc,              \* position of the loadXML call
  fetches,         \* number of fetch() calls
  fetchOutcome,    \* "none", "rejected", "notOk", "bodyError", "ok"
  xmlString,       \* <<>> until response.text() resolved, then <<doc>>
  worker,          \* "none", "running", "replied", "errored", "terminated"
  workersCreated,  \* number of new Worker() that returned
  workerReply,     \* <<>> or <<message posted by the worker>>
  workerFailed,    \* the promise of parseXMLWorker was rejected
  mainParses,      \* number of parseXMLMainThread calls
  promise,         \* state of the promise loadXML returned
  result,          \* <<>> or <<value the promise settled with>>
  glitchFonts,     \* the font pool (names pushed by loadGlitchFonts)
  rawContent,      \* the argument of the processContent call
  handed,          \* <<>> or <<string assigned to tmp.innerHTML>>
  returned,        \* <<>> or <<string processContent returned>>
  calls,           \* the parseXML calls made directly, one record each
  workers,         \* the Worker objects those calls constructed, in order
  initPc,          \* position of init() of the devLOGS page
  fontIndex,       \* i of the loop of loadGlitchFonts
  devLogs,         \* let devLogs
  mapped,          \* the array devLogs.map(..) is building
  processCalls,    \* number of processContent calls that returned
  currentFilter,   \* let currentFilter
  currentPage,     \* let currentPage
  listed,          \* the cards of #devlog-list: indexes into devLogs
  pagination,      \* <<>> or <<totalPages the page buttons were built with>>
  filterButtons,   \* the types of the filter buttons, <<>> without filter bar
  overlayOpen,     \* the overlay has class open
  overlayLog,      \* <<>> or <<record the header and body were written from>>
  scrollLocked,    \* document.body.style.overflow is 'hidden'
  history,         \* the hashes of the session history entries
  historyIndex,    \* the current entry
  appCurrentPage,  \* currentPage of app.js
  activeNavLink,   \* data-page of the menu link with class active
  mainContent,     \* what #main-content shows
  documentTitle,   \* the page whose title document.title was set from
  loads            \* the loadPage calls made, in order

loaderVars == <<feed, pc, fetches, fetchOutcome, xmlString, worker, workersCreated,
                workerReply, workerFailed, mainParses, promise, result>>
contentVars == <<glitchFonts, rawContent, handed, returned>>
callVars == <<calls, workers>>
initVars == <<initPc, fontIndex, mapped, processCalls>>
listVars == <<currentFilter, currentPage, listed, pagination, filterButtons>>
overlayVars == <<overlayOpen, overlayLog, scrollLocked, history, historyIndex>>
pageVars == <<initVars, devLogs, listVars, overlayVars>>
navVars == <<appCurrentPage, activeNavLink, mainContent, documentTitle, loads>>
vars == <<loaderVars, contentVars, callVars, pageVars, navVars>>

\* no loadXML call is under way
LoaderIdle ==
  /\ feed = [parsererror |-> FALSE, feed |-> FALSE, channel |-> "none",
             items |-> <<>>, strayItems |-> 0]
  /\ pc = "idle"
  /\ fetches = 0
  /\ fetchOutcome = "none"
  /\ xmlString = <<>>
  /\ worker = "none"
  /\ workersCreated = 0
  /\ workerReply = <<>>
  /\ workerFailed = FALSE
  /\ mainParses = 0
  /\ promise = "pending"
  /\ result = <<>>

\* no processContent call is under way
ContentIdle ==
  /\ glitchFonts = <<>>
  /\ rawContent = ""
  /\ handed = <<>>
  /\ returned = <<>>

\* bound on the number of parseXML calls made directly
MaxCalls == 2

\* a parseXML call that has not been made yet
IdleCall ==
  [pc |-> "idle", xmlString |-> <<>>, worker |-> 0, workerUrl |-> "none",
   workerPromise |-> <<>>, result |-> <<>>, consumed |-> FALSE]

\* the main site is not loaded: let currentPage = 'home', the placeholder of
\* #main-content
NavIdle ==
  /\ appCurrentPage = "home"
  /\ activeNavLink = ""
  /\ mainContent = [page |-> "", shows |-> "loading"]
  /\ documentTitle = ""
  /\ loads = <<>>

\* the devLOGS page is not loaded
PageIdle ==
  /\ initPc = "none"
  /\ fontIndex = 0
  /\ devLogs = <<>>
  /\ mapped = <<>>
  /\ processCalls = 0
  /\ currentFilter = "all"
  /\ currentPage = 1
  /\ listed = <<>>
  /\ pagination = <<>>
  /\ filterButtons = <<>>
  /\ overlayOpen = FALSE
  /\ overlayLog = <<>>
  /\ scrollLocked = FALSE
  /\ history = <<"">>
  /\ historyIndex = 1

\* no parseXML call was made directly
CallsIdle ==
  /\ calls = [c \in 1..MaxCalls |-> IdleCall]
  /\ workers = <<>>

Init ==
  /\ feed \in Docs
  /\ pc = "start"
  /\ fetches = 0
  /\ fetchOutcome = "none"
  /\ xmlString = <<>>
  /\ worker = "none"
  /\ workersCreated = 0
  /\ workerReply = <<>>
  /\ workerFailed = FALSE
  /\ mainParses = 0
  /\ promise = "pending"
  /\ result = <<>>
  /\ ContentIdle
  /\ CallsIdle
  /\ NavIdle
  /\ PageIdle

Success(data) == [success |-> TRUE, data |-> data]
Failure(msg) == [success |-> FALSE, error |-> msg]
Settled(state, value) == [state |-> state, value |-> value]

\* ------------------------------------------------------------------ loadXML
StatusTexts == {"", "Not Found"}
NetworkErrorText == "Failed to fetch"
BodyErrorText == "body stream error"

\* catch (error) { return { success: false, error: error.message } } of loadXML
LoadXMLCatch(msg) == Settled("resolved", Failure(msg))

LoadXML_CallFetch ==
  /\ pc = "start"
  /\ pc' = "fetching"
  /\ fetches' = fetches + 1
  /\ UNCHANGED <<feed, fetchOutcome, xmlString, worker, workersCreated,
                 workerReply, workerFailed, mainParses, promise, result,
                 contentVars, callVars, pageVars, navVars>>

FetchFails(outcome, msg) ==
  /\ fetchOutcome' = outcome
  /\ pc' = "done"
  /\ promise' = LoadXMLCatch(msg).state
  /\ result' = <<LoadXMLCatch(msg).value>>
  /\ UNCHANGED <<feed, fetches, xmlString, worker, workersCreated,
                 workerReply, workerFailed, mainParses,
                 contentVars, callVars, pageVars, navVars>>

\* a loadXML without the response.ok test would go on to read the body
FetchNotOk_Ignored ==
  /\ pc = "fetching"
  /\ pc' = "reading"
  /\ fetchOutcome' = "notOk"
  /\ UNCHANGED <<feed, fetches, xmlString, worker, workersCreated,
                 workerReply, workerFailed, mainParses, promise, result,
                 contentVars, callVars, pageVars, navVars>>

FetchRejects ==
  /\ pc = "fetching"
  /\ FetchFails("rejected", NetworkErrorText)

FetchNotOk ==
  /\ pc = "fetching"
  /\ \E statusText \in StatusTexts :
       FetchFails("notOk", "Failed to load XML: " \o statusText)

FetchOk ==
  /\ pc = "fetching"
  /\ pc' = "reading"
  /\ fetchOutcome' = "ok"
  /\ UNCHANGED <<feed, fetches, xmlString, worker, workersCreated,
                 workerReply, workerFailed, mainParses, promise, result,
                 contentVars, callVars, pageVars, navVars>>

ReadTextRejects ==
  /\ pc = "reading"
  /\ FetchFails("bodyError", BodyErrorText)

ReadTextResolves ==
  /\ pc = "reading"
  /\ xmlString' = <<feed>>
  /\ pc' = "parseXML"
  /\ UNCHANGED <<feed, fetches, fetchOutcome, worker, workersCreated,
                 workerReply, workerFailed, mainParses, promise, result,
                 contentVars, callVars, pageVars, navVars>>

\* ------------------------------------------------------------------ parseXMLWorker
\* new Blob / URL.createObjectURL / new Worker throws inside the executor
ParseXMLWorker_CreateThrows ==
  /\ pc = "parseXML"
  /\ workerFailed' = TRUE
  /\ pc' = "fallback"
  /\ UNCHANGED <<feed, fetches, fetchOutcome, xmlString, worker, workersCreated,
                 workerReply, mainParses, promise, result,
                 contentVars, callVars, pageVars, navVars>>

ParseXMLWorker_Create ==
  /\ pc = "parseXML"
  /\ worker' = "running"
  /\ workersCreated' = workersCreated + 1
  /\ pc' = "awaitWorker"
  /\ UNCHANGED <<feed, fetches, fetchOutcome, xmlString, workerReply,
                 workerFailed, mainParses, promise, result,
                 contentVars, callVars, pageVars, navVars>>

\* the worker handles the posted text and posts its reply
Worker_OnMessage ==
  /\ worker = "running"
  /\ \E hasDOMParser \in BOOLEAN :
       workerReply' = <<WorkerOnMessage(xmlString[1], hasDOMParser)>>
  /\ worker' = "replied"
  /\ UNCHANGED <<feed, pc, fetches, fetchOutcome, xmlString, workersCreated,
                 workerFailed, mainParses, promise, result,
                 contentVars, callVars, pageVars, navVars>>

\* the worker script fails: an error event is dispatched on the Worker object
Worker_ErrorEvent ==
  /\ worker = "running"
  /\ worker' = "errored"
  /\ UNCHANGED <<feed, pc, fetches, fetchOutcome, xmlString, workersCreated,
                 workerReply, workerFailed, mainParses, promise, result,
                 contentVars, callVars, pageVars, navVars>>

\* try { data = await parseXMLWorker(..); return {success: true, data} }
ParseXMLWorkerResolved(data) == Settled("resolved", Success(data))

\* a parseXML that would run the main-thread parse whatever the worker said
AfterWorkerMessage_AlwaysFallback(msg) == "fallback"

\* where parseXML continues after worker.onmessage settled the worker promise
AfterWorkerMessage(msg) == IF msg.ok THEN "done" ELSE "fallback"

\* worker.onmessage on the main thread
Main_WorkerOnMessage ==
  /\ pc = "awaitWorker"
  /\ worker = "replied"
  /\ worker' = "terminated"
  /\ LET msg == workerReply[1]
     IN /\ pc' = AfterWorkerMessage(msg)
        /\ IF AfterWorkerMessage(msg) = "done"
           THEN /\ promise' = ParseXMLWorkerResolved(msg.value).state
                /\ result' = <<ParseXMLWorkerResolved(msg.value).value>>
                /\ UNCHANGED workerFailed
           ELSE /\ workerFailed' = TRUE
                /\ UNCHANGED <<promise, result>>
  /\ UNCHANGED <<feed, fetches, fetchOutcome, xmlString, workersCreated,
                 workerReply, mainParses,
                 contentVars, callVars, pageVars, navVars>>

\* worker.onerror on the main thread
Main_WorkerOnError ==
  /\ pc = "awaitWorker"
  /\ worker = "errored"
  /\ worker' = "terminated"
  /\ workerFailed' = TRUE
  /\ pc' = "fallback"
  /\ UNCHANGED <<feed, fetches, fetchOutcome, xmlString, workersCreated,
                 workerReply, mainParses, promise, result,
                 contentVars, callVars, pageVars, navVars>>

\* ------------------------------------------------------------------ parseXML
\* a parseXML without the inner try/catch: the fallback's throw rejects
ParseXMLFallback_NoCatch(doc) ==
  LET r == parseXMLMainThread(doc)
  IN IF r.ok THEN Settled("resolved", Success(r.value))
     ELSE Settled("rejected", Failure(r.error))

\* the inner try/catch of parseXML around parseXMLMainThread
ParseXMLFallback(doc) ==
  LET r == parseXMLMainThread(doc)
  IN IF r.ok THEN Settled("resolved", Success(r.value))
     ELSE Settled("resolved", Failure(r.error))

\* a parseXML that would give up waiting for its worker and parse here
ParseXML_Fallback_OnTimeout ==
  /\ pc \in {"fallback", "awaitWorker"}
  /\ mainParses' = mainParses + 1
  /\ promise' = ParseXMLFallback(xmlString[1]).state
  /\ result' = <<ParseXMLFallback(xmlString[1]).value>>
  /\ pc' = "done"
  /\ UNCHANGED <<feed, fetches, fetchOutcome, xmlString, worker, workersCreated,
                 workerReply, workerFailed,
                 contentVars, callVars, pageVars, navVars>>

\* catch (_workerErr) { ... } of parseXML
ParseXML_Fallback ==
  /\ pc = "fallback"
  /\ mainParses' = mainParses + 1
  /\ promise' = ParseXMLFallback(xmlString[1]).state
  /\ result' = <<ParseXMLFallback(xmlString[1]).value>>
  /\ pc' = "done"
  /\ UNCHANGED <<feed, fetches, fetchOutcome, xmlString, worker, workersCreated,
                 workerReply, workerFailed,
                 contentVars, callVars, pageVars, navVars>>

Next ==
  \/ LoadXML_CallFetch
  \/ FetchRejects
  \/ FetchNotOk
  \/ FetchOk
  \/ ReadTextRejects
  \/ ReadTextResolves
  \/ ParseXMLWorker_CreateThrows
  \/ ParseXMLWorker_Create
  \/ Worker_OnMessage
  \/ Worker_ErrorEvent
  \/ Main_WorkerOnMessage
  \/ Main_WorkerOnError
  \/ ParseXML_Fallback

Spec == Init /\ [][Next]_vars

\* The worker reports (it posts its reply or its script fails), and the event
\* loop runs the handler of every event dispatched and continues parseXML once
\* the promise it awaits is settled.
SpecLive ==
  /\ Init
  /\ [][Next]_vars
  /\ WF_vars(Worker_OnMessage \/ Worker_ErrorEvent)
  /\ WF_vars(Main_WorkerOnMessage)
  /\ WF_vars(Main_WorkerOnError)
  /\ WF_vars(ParseXML_Fallback)

\* ------------------------------------------------------------------ parseXML calls in flight together
\* parseXML is exported: a page can call it again before an earlier call has
\* returned.  Every call runs the body of parseXMLWorker and of parseXML with
\* its own xmlString, workerUrl, worker, resolve and reject.
ItemWith(title, id) ==
  [title |-> title, id |-> id, type |-> <<>>, heading |-> <<>>,
   description |-> <<>>, content |-> <<>>, pubDate |-> <<>>]

FeedWith(items) ==
  [parsererror |-> FALSE, feed |-> TRUE, channel |-> "inFeed", items |-> items,
   strayItems |-> 0]

\* the feed texts of the direct calls: two that parse, to different lists, and
\* one that both parsers refuse
CallDocs ==
  {FeedWith(<<ItemWith(<<"T">>, <<"1">>)>>),
   FeedWith(<<ItemWith(<<"T">>, <<"2">>)>>),
   FeedWith(<<ItemWith(<<"T">>, <<>>)>>)}

ConstructorErrorText == "<constructor error>"
WorkerErrorText == "<error event message>"

\* the statement of the executor that throws
CreateStages == {"Blob", "createObjectURL", "Worker"}

\* the object URL exists once URL.createObjectURL returned
WorkerUrlAfterThrow(stage) == IF stage = "Worker" THEN "live" ELSE "none"

\* new Worker(workerUrl) ... worker.postMessage(xmlString)
NewWorker(c, doc) ==
  [state |-> "running", data |-> doc, reply |-> <<>>, createdBy |-> c]

\* the executor of parseXMLWorker ran to its end
ParseXML_Call(c) ==
  /\ calls[c].pc = "idle"
  /\ \E doc \in CallDocs :
       /\ workers' = Append(workers, NewWorker(c, doc))
       /\ calls' = [calls EXCEPT ![c] =
                      [@ EXCEPT !.pc = "awaitWorker", !.xmlString = <<doc>>,
                                !.worker = Len(workers) + 1, !.workerUrl = "live"]]
  /\ UNCHANGED <<loaderVars, contentVars, pageVars, navVars>>

\* the executor of parseXMLWorker threw: the worker promise is rejected
ParseXML_CallCreateThrows(c) ==
  /\ calls[c].pc = "idle"
  /\ \E doc \in CallDocs, stage \in CreateStages :
       calls' = [calls EXCEPT ![c] =
                   [@ EXCEPT !.pc = "settled", !.xmlString = <<doc>>,
                             !.workerUrl = WorkerUrlAfterThrow(stage),
                             !.workerPromise = <<Threw(ConstructorErrorText)>>]]
  /\ UNCHANGED <<loaderVars, contentVars, workers, pageVars, navVars>>

\* self.onmessage in worker w: it handles its data and posts the reply
CallWorker_OnMessage(w) ==
  /\ workers[w].state = "running"
  /\ \E hasDOMParser \in BOOLEAN :
       workers' = [workers EXCEPT ![w] =
                     [@ EXCEPT !.state = "replied",
                               !.reply = <<WorkerOnMessage(workers[w].data,
                                                         hasDOMParser)>>]]
  /\ UNCHANGED <<loaderVars, contentVars, calls, pageVars, navVars>>

\* the script of worker w fails: an error event is dispatched on its object
CallWorker_ErrorEvent(w) ==
  /\ workers[w].state = "running"
  /\ workers' = [workers EXCEPT ![w] = [@ EXCEPT !.state = "errored"]]
  /\ UNCHANGED <<loaderVars, contentVars, calls, pageVars, navVars>>

\* handlers that would share one call's resolve, reject, worker and workerUrl
HandlerCall_Shared(ws, w) == 1

\* the call whose executor assigned the handlers of worker w: they close over
\* that call's worker, workerUrl, resolve and reject
HandlerCall(ws, w) == ws[w].createdBy

\* a handler that would leave the worker running
Terminate_KeepAlive(wr) == wr

\* worker.terminate()
Terminate(wr) == [wr EXCEPT !.state = "terminated"]

\* URL.revokeObjectURL(workerUrl)
RevokeObjectURL(url) == IF url = "live" THEN "revoked" ELSE url

\* resolve / reject: a promise that is settled stays as it is
SettleOnce(p, outcome) == IF p = <<>> THEN <<outcome>> ELSE p

\* reject(new Error(e.data.error)) / reject(new Error('Worker error: ' + ..))
\* and resolve(e.data.data)
HandlerRuns(w, outcome) ==
  LET c == HandlerCall(workers, w)
      own == calls[c].worker
  IN /\ workers' = IF own = 0 THEN workers
                   ELSE [workers EXCEPT ![own] = Terminate(@)]
     /\ calls' = [calls EXCEPT ![c] =
                    [@ EXCEPT !.workerUrl = RevokeObjectURL(@),
                              !.workerPromise = SettleOnce(@, outcome),
                              !.pc = IF @ = "awaitWorker" THEN "settled" ELSE @]]
     /\ UNCHANGED <<loaderVars, contentVars, pageVars, navVars>>

\* worker.onmessage of worker w on the main thread
CallMain_WorkerOnMessage(w) ==
  /\ workers[w].state = "replied"
  /\ HandlerRuns(w, workers[w].reply[1])

\* worker.onerror of worker w on the main thread
CallMain_WorkerOnError(w) ==
  /\ workers[w].state = "errored"
  /\ HandlerRuns(w, Threw("Worker error: " \o WorkerErrorText))

\* what parseXML returns once the worker promise is settled
ParseXMLOutcome(doc, settled) ==
  IF settled.ok THEN ParseXMLWorkerResolved(settled.value)
  ELSE ParseXMLFallback(doc)

\* the await of parseXML continues: return, or catch and parse here
ParseXML_AfterWorker(c) ==
  /\ calls[c].pc = "settled"
  /\ calls' = [calls EXCEPT ![c] =
                 [@ EXCEPT !.pc = "done",
                           !.result = <<ParseXMLOutcome(calls[c].xmlString[1],
                                                        calls[c].workerPromise[1])>>]]
  /\ UNCHANGED <<loaderVars, contentVars, workers, pageVars, navVars>>

\* the caller reads the value its promise resolved with
Caller_Consume(c) ==
  /\ calls[c].pc = "done"
  /\ ~calls[c].consumed
  /\ calls' = [calls EXCEPT ![c] = [@ EXCEPT !.consumed = TRUE]]
  /\ UNCHANGED <<loaderVars, contentVars, workers, pageVars, navVars>>

InitCalls ==
  /\ LoaderIdle
  /\ ContentIdle
  /\ CallsIdle
  /\ NavIdle
  /\ PageIdle

NextCalls ==
  \/ \E c \in 1..MaxCalls : ParseXML_Call(c)
  \/ \E c \in 1..MaxCalls : ParseXML_CallCreateThrows(c)
  \/ \E w \in 1..Len(workers) : CallWorker_OnMessage(w)
  \/ \E w \in 1..Len(workers) : CallWorker_ErrorEvent(w)
  \/ \E w \in 1..Len(workers) : CallMain_WorkerOnMessage(w)
  \/ \E w \in 1..Len(workers) : CallMain_WorkerOnError(w)
  \/ \E c \in 1..MaxCalls : ParseXML_AfterWorker(c)
  \/ \E c \in 1..MaxCalls : Caller_Consume(c)

SpecCalls == InitCalls /\ [][NextCalls]_vars

\* ------------------------------------------------------------------ feeds with pubDate elements
DateTexts == {"", "1770976574"}
TimezoneTexts == {"", "GMT"}

\* no pubDate element, or one whose date and timezone children may be missing
PubDateElements == Opt([date: Opt(DateTexts), timezone: Opt(TimezoneTexts)])

PubDateItems ==
  {[ItemWith(<<"T">>, <<"1">>) EXCEPT !.pubDate = e] : e \in PubDateElements}

PubDateFeeds ==
  {FeedWith(items) : items \in [1..1 -> PubDateItems] \cup [1..2 -> PubDateItems]}

\* loadXML is called on a feed whose items differ in their pubDate elements
InitPubDate ==
  /\ feed \in PubDateFeeds
  /\ pc = "start"
  /\ fetches = 0
  /\ fetchOutcome = "none"
  /\ xmlString = <<>>
  /\ worker = "none"
  /\ workersCreated = 0
  /\ workerReply = <<>>
  /\ workerFailed = FALSE
  /\ mainParses = 0
  /\ promise = "pending"
  /\ result = <<>>
  /\ ContentIdle
  /\ CallsIdle
  /\ NavIdle
  /\ PageIdle

SpecPubDate == InitPubDate /\ [][Next]_vars

\* ------------------------------------------------------------------ strings
\* A JavaScript string is a TLA+ string; its characters are its one-character
\* substrings.
CharAt(s, i) == SubSeq(s, i, i)

Min(a, b) == IF a <= b THEN a ELSE b
Max(a, b) == IF a >= b THEN a ELSE b

UpperCaseLetters == "ABCDEFGHIJKLMNOPQRSTUVWXYZ"
LowerCaseLetters == "abcdefghijklmnopqrstuvwxyz"
Digits == "0123456789"

\* the index of character c in s, 0 when it does not occur
IndexOf(s, c) ==
  IF \E i \in 1..Len(s) : CharAt(s, i) = c
  THEN CHOOSE i \in 1..Len(s) : CharAt(s, i) = c /\ \A k \in 1..(i - 1) : CharAt(s, k) # c
  ELSE 0

CharsOf(s) == {CharAt(s, i) : i \in 1..Len(s)}
UpperCaseSet == CharsOf(UpperCaseLetters)
LowerCaseSet == CharsOf(LowerCaseLetters)
DigitSet == CharsOf(Digits)

ToLowerCase(c) ==
  IF c \in UpperCaseSet THEN CharAt(LowerCaseLetters, IndexOf(UpperCaseLetters, c)) ELSE c

IsLetter(c) == c \in UpperCaseSet \/ c \in LowerCaseSet
IsDigit(c) == c \in DigitSet

\* \s of a regular expression (the members a feed text can hold)
IsSpace(c) == c \in {" ", "\t", "\n", "\r", "\f"}

\* the characters that . does not match without the s flag
IsLineTerminator(c) == c \in {"\n", "\r"}

\* the literal p (given in lower case) matches s at i under the i flag
MatchesAt(s, i, p) ==
  /\ i >= 1
  /\ i + Len(p) - 1 <= Len(s)
  /\ \A k \in 1..Len(p) :
       LET c == CharAt(s, i + k - 1)
       IN c = CharAt(p, k) \/ ToLowerCase(c) = CharAt(p, k)

\* the end of the longest run of characters satisfying a class, from i on
SkipSpaces(s, i) ==
  CHOOSE j \in i..(Len(s) + 1) :
    /\ \A k \in i..(j - 1) : IsSpace(CharAt(s, k))
    /\ j = Len(s) + 1 \/ ~IsSpace(CharAt(s, j))

SkipDigits(s, i) ==
  CHOOSE j \in i..(Len(s) + 1) :
    /\ \A k \in i..(j - 1) : IsDigit(CharAt(s, k))
    /\ j = Len(s) + 1 \/ ~IsDigit(CharAt(s, j))

\* String.prototype.repeat
RECURSIVE Repeat(_, _)
Repeat(c, n) == IF n <= 0 THEN "" ELSE c \o Repeat(c, n - 1)

\* the least member of a set of indices, 0 when it is empty
First(S) == IF S = {} THEN 0 ELSE CHOOSE m \in S : \A k \in S : m <= k

\* every pattern of processContent starts with "<": the indices, from i on,
\* where a match can start
TagStarts(s, i) == {n \in i..Len(s) : CharAt(s, n) = "<"}

\* the body running to the end of the content when no close follows, as
\* (.*?)(close|$) would match
LazyBodyEnd_ToEnd(s, b, close) ==
  LET j == First({m \in b..Len(s) :
                    MatchesAt(s, m, close) \/ IsLineTerminator(CharAt(s, m))})
  IN IF j > 0 /\ MatchesAt(s, j, close) THEN j
     ELSE IF j = 0 /\ b <= Len(s) + 1 THEN Len(s) + 1
     ELSE 0

\* (.*?) followed by the literal close, from b on: the index where close
\* starts, or 0 when a line terminator or the end of the string comes first
LazyBodyEnd(s, b, close) ==
  LET j == First({m \in b..Len(s) :
                    MatchesAt(s, m, close) \/ IsLineTerminator(CharAt(s, m))})
  IN IF j > 0 /\ MatchesAt(s, j, close) THEN j ELSE 0

\* ------------------------------------------------------------------ step 1
\* /<br\s*\/>/gi and /<hr\s*\/>/gi at i: the index after the match, or 0
VoidMatchEnd(s, i, open) ==
  IF MatchesAt(s, i, open)
  THEN LET j == SkipSpaces(s, i + Len(open))
       IN IF MatchesAt(s, j, "/>") THEN j + 2 ELSE 0
  ELSE 0

\* a global replace copies the text up to the next match, writes the
\* replacement and goes on after the match
RECURSIVE ReplaceVoid(_, _, _, _)
ReplaceVoid(s, i, open, repl) ==
  LET m == First({n \in TagStarts(s, i) : VoidMatchEnd(s, n, open) > 0})
  IN IF m = 0 THEN SubSeq(s, i, Len(s))
     ELSE SubSeq(s, i, m - 1) \o repl
          \o ReplaceVoid(s, VoidMatchEnd(s, m, open), open, repl)

\* /<img\s+([^>]*?)\/>/gi at i: [from |-> start of $1, to |-> index of "/>"],
\* to = 0 when there is no match
ImgMatch(s, i) ==
  IF MatchesAt(s, i, "<img") /\ i + 4 <= Len(s) /\ IsSpace(CharAt(s, i + 4))
  THEN LET j == SkipSpaces(s, i + 4)
           gts == {q \in j..Len(s) : CharAt(s, q) = ">"}
           q == First(gts)
       IN IF q > 0 /\ q - 1 >= j /\ CharAt(s, q - 1) = "/"
          THEN [from |-> j, to |-> q - 1]
          ELSE [from |-> j, to |-> 0]
  ELSE [from |-> i, to |-> 0]

RECURSIVE ReplaceImg(_, _)
ReplaceImg(s, i) ==
  LET n == First({q \in TagStarts(s, i) : ImgMatch(s, q).to > 0})
  IN IF n = 0 THEN SubSeq(s, i, Len(s))
     ELSE LET m == ImgMatch(s, n)
          IN SubSeq(s, i, n - 1) \o "<img " \o SubSeq(s, m.from, m.to - 1) \o ">"
             \o ReplaceImg(s, m.to + 2)

\* the three replacements in turn, each on the string the one before produced
NormaliseVoidTags(s) ==
  CHOOSE r \in {ReplaceImg(b, 1) :
                 b \in {ReplaceVoid(a, 1, "<hr", "<hr>") :
                        a \in {ReplaceVoid(s, 1, "<br", "<br>")}}} : TRUE

\* ------------------------------------------------------------------ step 2
BlockGlyph == "█"

CensorReplacement(p1) ==
  "<span class=\"censor-text\">" \o Repeat(BlockGlyph, Len(p1)) \o "</span>"

\* content.replace(/<censor>(.*?)<\/censor>/gi, ...)
\* /<censor>(.*?)<\/censor>/gi at i: the index where </censor> starts, or 0
CensorClose(s, i) ==
  IF MatchesAt(s, i, "<censor>") THEN LazyBodyEnd(s, i + 8, "</censor>") ELSE 0

RECURSIVE ReplaceCensor(_, _)
ReplaceCensor(s, i) ==
  LET m == First({n \in TagStarts(s, i) : CensorClose(s, n) > 0})
  IN IF m = 0 THEN SubSeq(s, i, Len(s))
     ELSE LET j == CensorClose(s, m)
          IN SubSeq(s, i, m - 1) \o CensorReplacement(SubSeq(s, m + 8, j - 1))
             \o ReplaceCensor(s, j + 9)

\* ------------------------------------------------------------------ step 3
\* a split that would take a run of spaces as one separator: split(/ +/)
RECURSIVE Split_OnSpaceRuns(_, _)
Split_OnSpaceRuns(s, i) ==
  LET m == First({n \in i..Len(s) : CharAt(s, n) = " "})
      next == First({n \in (m + 1)..Len(s) : CharAt(s, n) # " "})
  IN IF m = 0 THEN <<SubSeq(s, i, Len(s))>>
     ELSE IF next = 0 THEN <<SubSeq(s, i, m - 1), "">>
     ELSE <<SubSeq(s, i, m - 1)>> \o Split_OnSpaceRuns(s, next)

\* String.prototype.split(' ') from index i on
RECURSIVE Split(_, _)
Split(s, i) ==
  LET m == First({n \in i..Len(s) : CharAt(s, n) = " "})
  IN IF m = 0 THEN <<SubSeq(s, i, Len(s))>>
     ELSE <<SubSeq(s, i, m - 1)>> \o Split(s, m + 1)

\* Array.prototype.join(' ')
RECURSIVE JoinSpace(_)
JoinSpace(words) ==
  IF Len(words) = 0 THEN ""
  ELSE IF Len(words) = 1 THEN words[1]
  ELSE words[1] \o " " \o JoinSpace(Tail(words))

RECURSIVE MaskFrom(_, _)
MaskFrom(word, i) ==
  IF i > Len(word) THEN ""
  ELSE (IF i = 1 \/ i = Len(word) - 1 THEN CharAt(word, i) ELSE "*")
       \o MaskFrom(word, i + 1)

\* the masking of the older revision: the first 30% of a word stays visible
MaskWord_ThirtyPercent(word) ==
  IF Len(word) <= 3 THEN word
  ELSE LET v == (Len(word) * 3) \div 10
       IN SubSeq(word, 1, v) \o Repeat("*", Len(word) - v)

\* the callback of p1.split(' ').map(...)
MaskWord(word) ==
  IF Len(word) <= 2 THEN word
  ELSE IF Len(word) = 3 THEN CharAt(word, 1) \o "*" \o CharAt(word, 3)
  ELSE MaskFrom(word, 1)

PCensorReplacement(p1) ==
  LET words == Split(p1, 1)
  IN JoinSpace([k \in 1..Len(words) |-> MaskWord(words[k])])

\* content.replace(/<PCensor>(.*?)<\/PCensor>/gi, ...)
\* /<PCensor>(.*?)<\/PCensor>/gi at i: the index where </PCensor> starts, or 0
PCensorClose(s, i) ==
  IF MatchesAt(s, i, "<pcensor>") THEN LazyBodyEnd(s, i + 9, "</pcensor>") ELSE 0

RECURSIVE ReplacePCensor(_, _)
ReplacePCensor(s, i) ==
  LET m == First({n \in TagStarts(s, i) : PCensorClose(s, n) > 0})
  IN IF m = 0 THEN SubSeq(s, i, Len(s))
     ELSE LET j == PCensorClose(s, m)
          IN SubSeq(s, i, m - 1) \o PCensorReplacement(SubSeq(s, m + 9, j - 1))
             \o ReplacePCensor(s, j + 10)

\* ------------------------------------------------------------------ step 4
\* Math.random() is read from a random source: a non-empty sequence of values
\* in 0..RandomResolution-1 (the value v standing for v / RandomResolution),
\* read cyclically; k counts the calls made so far.
RandomResolution == 5
MaxRandomPeriod == 2

RandomSources == [1..MaxRandomPeriod -> 0..(RandomResolution - 1)]

\* Math.floor(Math.random() * n), as the k-th call (k from 0)
RandomIndex(rnd, k, n) == (rnd[(k % Len(rnd)) + 1] * n) \div RandomResolution

pool == "ABCDEFGHIJKLMNOPQRSTUVWXYZabcdefghijklmnopqrstuvwxyz0123456789!@#$%^&*()-_=+"

\* the speed rising with the intensity: Math.max(0.08, intensity * 0.05)
SpeedText_Rising(intensity) ==
  CASE intensity = 2 -> "0.1"
    [] intensity = 3 -> "0.15000000000000002"
    [] intensity = 4 -> "0.2"
    [] intensity = 5 -> "0.25"
    [] intensity = 6 -> "0.30000000000000004"
    [] intensity = 7 -> "0.35000000000000003"
    [] intensity = 8 -> "0.4"
    [] intensity = 9 -> "0.45"
    [] intensity = 10 -> "0.5"
    [] OTHER -> "0.08"

\* `${speed}` for speed = Math.max(0.08, 0.6 - intensity * 0.05) in IEEE 754
\* double arithmetic, printed as JavaScript prints a number
SpeedText(intensity) ==
  CASE intensity = 2 -> "0.5"
    [] intensity = 3 -> "0.44999999999999996"
    [] intensity = 4 -> "0.39999999999999997"
    [] intensity = 5 -> "0.35"
    [] intensity = 6 -> "0.29999999999999993"
    [] intensity = 7 -> "0.24999999999999994"
    [] intensity = 8 -> "0.19999999999999996"
    [] intensity = 9 -> "0.14999999999999997"
    [] intensity = 10 -> "0.09999999999999998"
    [] intensity = 0 -> "0.6"
    [] intensity = 1 -> "0.5499999999999999"
    [] OTHER -> "0.08"

\* !text || text.trim().length === 0
IsBlank(text) == \A i \in 1..Len(text) : IsSpace(CharAt(text, i))

\* Array.from({length: len}, () => pool[...]).join(''), calls k .. k+len-1
RECURSIVE RandomText(_, _, _)
RandomText(rnd, k, len) ==
  IF len = 0 THEN ""
  ELSE CharAt(pool, RandomIndex(rnd, k, Len(pool)) + 1) \o RandomText(rnd, k + 1, len - 1)

GlitchChar(display, fontCSS, intensity) ==
  "<span class=\"glitch-char\" style=\"" \o fontCSS \o "--glitch-speed:"
  \o SpeedText(intensity) \o "s;\">" \o display \o "</span>"

\* the calls of Math.random() the callback of map makes for one character
\* other than the space: one for display, one more for font when there are fonts
CallsPerChar(fonts) == IF Len(fonts) > 0 THEN 2 ELSE 1

\* the calls of Math.random() that text.split('').map(...) makes
CallsForText(text, fonts) ==
  Cardinality({p \in 1..Len(text) : CharAt(text, p) # " "}) * CallsPerChar(fonts)

\* text.split('').map(ch => ...).join(''), from character i on, k calls of
\* Math.random() made before
\* the callback of map for the character ch, k calls of Math.random() made
\* before
GlitchSpan(ch, intensity, fonts, rnd, k) ==
  IF ch = " " THEN " "
  ELSE LET display == CharAt(pool, RandomIndex(rnd, k, Len(pool)) + 1)
           fontCSS == IF Len(fonts) > 0
                      THEN "font-family:'" \o fonts[RandomIndex(rnd, k + 1, Len(fonts)) + 1]
                           \o "',monospace;"
                      ELSE ""
       IN GlitchChar(display, fontCSS, intensity)

RECURSIVE GlitchSpans(_, _, _, _, _, _)
GlitchSpans(text, i, intensity, fonts, rnd, k) ==
  IF i > Len(text) THEN ""
  ELSE GlitchSpan(CharAt(text, i), intensity, fonts, rnd, k)
       \o GlitchSpans(text, i + 1, intensity, fonts, rnd,
                      k + CallsForText(CharAt(text, i), fonts))

\* the random text drawn with a length of 3 to 9: Math.random() * 7
renderGlitchText_LongerRandomText(text, intensity, fonts, rnd, k) ==
  LET len == RandomIndex(rnd, k, 7) + 3
      t == IF IsBlank(text) THEN RandomText(rnd, k + 1, len) ELSE text
      k1 == IF IsBlank(text) THEN k + 1 + len ELSE k
  IN [out |-> "<span class=\"glitch-container\">"
              \o GlitchSpans(t, 1, intensity, fonts, rnd, k1) \o "</span>",
      k |-> k1 + CallsForText(t, fonts)]

\* the value is [out |-> the markup, k |-> the calls of Math.random() so far]
renderGlitchText(text, intensity, fonts, rnd, k) ==
  LET len == RandomIndex(rnd, k, 5) + 3
      t == IF IsBlank(text) THEN RandomText(rnd, k + 1, len) ELSE text
      k1 == IF IsBlank(text) THEN k + 1 + len ELSE k
  IN [out |-> "<span class=\"glitch-container\">"
              \o GlitchSpans(t, 1, intensity, fonts, rnd, k1) \o "</span>",
      k |-> k1 + CallsForText(t, fonts)]

\* parseInt of a string of decimal digits
RECURSIVE ParseInt(_, _)
ParseInt(s, acc) ==
  IF s = "" THEN acc
  ELSE ParseInt(SubSeq(s, 2, Len(s)), 10 * acc + (IndexOf(Digits, CharAt(s, 1)) - 1))

\* the intensity passed on as written
ClampIntensity_Unclamped(int) == ParseInt(int, 0)

\* Math.min(Math.max(parseInt(int), 2), 10)
ClampIntensity(int) == Min(Max(ParseInt(int, 0), 2), 10)

\* <glitch\s+intensity="(\d+)" at i: [from, to] delimit the digits and to + 1 is
\* the closing quote; to = 0 when there is no match
GlitchOpen(s, i) ==
  IF MatchesAt(s, i, "<glitch") /\ i + 7 <= Len(s) /\ IsSpace(CharAt(s, i + 7))
  THEN LET j == SkipSpaces(s, i + 7)
       IN IF MatchesAt(s, j, "intensity=\"")
          THEN LET e == SkipDigits(s, j + 11)
               IN IF e > j + 11 /\ MatchesAt(s, e, "\"")
                  THEN [from |-> j + 11, to |-> e - 1]
                  ELSE [from |-> i, to |-> 0]
          ELSE [from |-> i, to |-> 0]
  ELSE [from |-> i, to |-> 0]

\* /<glitch\s+intensity="(\d+)">(.*?)<\/glitch>/gi at i: the index where
\* </glitch> starts, or 0
GlitchPairedClose(s, i) ==
  LET o == GlitchOpen(s, i)
  IN IF o.to > 0 /\ MatchesAt(s, o.to + 1, "\">")
     THEN LazyBodyEnd(s, o.to + 3, "</glitch>")
     ELSE 0

\* /<glitch\s+intensity="(\d+)"\s*\/>/gi at i: the index after the match, or 0
GlitchSelfClosedEnd(s, i) ==
  LET o == GlitchOpen(s, i)
  IN IF o.to > 0
     THEN LET j == SkipSpaces(s, o.to + 2)
          IN IF MatchesAt(s, j, "/>") THEN j + 2 ELSE 0
     ELSE 0

RECURSIVE ReplaceGlitchPaired(_, _, _, _, _, _)
ReplaceGlitchPaired(s, i, fonts, rnd, k, acc) ==
  LET m == First({n \in TagStarts(s, i) : GlitchPairedClose(s, n) > 0})
  IN IF m = 0 THEN [out |-> acc \o SubSeq(s, i, Len(s)), k |-> k]
     ELSE LET j == GlitchPairedClose(s, m)
              o == GlitchOpen(s, m)
              r == renderGlitchText(SubSeq(s, o.to + 3, j - 1),
                                    ClampIntensity(SubSeq(s, o.from, o.to)),
                                    fonts, rnd, k)
          IN ReplaceGlitchPaired(s, j + 9, fonts, rnd, r.k,
                                 acc \o SubSeq(s, i, m - 1) \o r.out)

RECURSIVE ReplaceGlitchSelfClosed(_, _, _, _, _, _)
ReplaceGlitchSelfClosed(s, i, fonts, rnd, k, acc) ==
  LET m == First({n \in TagStarts(s, i) : GlitchSelfClosedEnd(s, n) > 0})
  IN IF m = 0 THEN [out |-> acc \o SubSeq(s, i, Len(s)), k |-> k]
     ELSE LET o == GlitchOpen(s, m)
              r == renderGlitchText("", ClampIntensity(SubSeq(s, o.from, o.to)),
                                    fonts, rnd, k)
          IN ReplaceGlitchSelfClosed(s, GlitchSelfClosedEnd(s, m), fonts, rnd, r.k,
                                     acc \o SubSeq(s, i, m - 1) \o r.out)

\* both glitch replacements, the paired form first
ReplaceGlitch(s, fonts, rnd) ==
  CHOOSE r \in {ReplaceGlitchSelfClosed(paired.out, 1, fonts, rnd, paired.k, "").out :
                 paired \in {ReplaceGlitchPaired(s, 1, fonts, rnd, 0, "")}} : TRUE

\* a glitch replacement will call Math.random()
HasGlitchMatch(content) ==
  \E s \in {content} : \E i \in TagStarts(s, 1) : GlitchPairedClose(s, i) > 0 \/ GlitchSelfClosedEnd(s, i) > 0

\* ------------------------------------------------------------------ step 5
\* tmp.innerHTML = content; return tmp.innerHTML: the HTML fragment parser
\* followed by the serialiser, for content made of text, start tags with
\* double-quoted attribute values and end tags. Tag names are lower-cased, a
\* void element takes no end tag, an end tag closes the open elements up to its
\* own, an end tag without an open element is dropped, the elements still open
\* at the end are closed, and a text "<", ">" or "&" is escaped. (Character
\* references, comments, and the parser's special cases for p, a, table and
\* formatting elements are outside the content modelled here.)
VoidElements ==
  {"area", "base", "br", "col", "embed", "hr", "img", "input", "link", "meta",
   "source", "track", "wbr"}

RECURSIVE LowerString(_)
LowerString(s) ==
  IF s = "" THEN "" ELSE ToLowerCase(CharAt(s, 1)) \o LowerString(SubSeq(s, 2, Len(s)))

\* the least index in from..Len(s) whose character is in set, 0 when none
\* (looked for in stretches of 64 characters)
RECURSIVE FirstOf(_, _, _)
FirstOf(s, from, set) ==
  IF from > Len(s) THEN 0
  ELSE LET m == First({q \in from..Min(Len(s), from + 63) : CharAt(s, q) \in set})
       IN IF m > 0 THEN m ELSE FirstOf(s, from + 64, set)

TagNameSeparators == {" ", "\t", "\n", "\r", "\f", "/", ">"}

\* the attributes of a start tag, without the surrounding white space and
\* without the / of the self-closing syntax
RECURSIVE TrimAttributes(_)
TrimAttributes(a) ==
  IF a = "" THEN ""
  ELSE IF IsSpace(CharAt(a, 1)) THEN TrimAttributes(SubSeq(a, 2, Len(a)))
  ELSE IF IsSpace(CharAt(a, Len(a))) \/ CharAt(a, Len(a)) = "/"
  THEN TrimAttributes(SubSeq(a, 1, Len(a) - 1))
  ELSE a

RECURSIVE CloseAll(_)
CloseAll(open) ==
  IF open = <<>> THEN "" ELSE "</" \o Head(open) \o ">" \o CloseAll(Tail(open))

\* the open elements (innermost first) down to and including name
RECURSIVE UpTo(_, _)
UpTo(open, name) ==
  IF Head(open) = name THEN <<name>> ELSE <<Head(open)>> \o UpTo(Tail(open), name)

IsOpen(open, name) == \E k \in 1..Len(open) : open[k] = name

\* an element that holds plain text only, its start tag ending before index
\* from: the index after its end tag, 0 when the element is not of that form
ElementEnd(s, from, name) ==
  LET m == FirstOf(s, from, {"<", ">", "&"})
  IN IF m > 0 /\ MatchesAt(s, m, "</" \o name \o ">") THEN m + Len(name) + 3 ELSE 0

\* one step of the parser and serialiser at index i of s, with the elements of
\* open (innermost first) open: text is what the step writes, next the index
\* the step after it starts at, open the elements open after it
SerialiseStep(s, i, open) ==
  IF CharAt(s, i) \notin {"<", ">", "&"}
  THEN LET m == FirstOf(s, i, {"<", ">", "&"})
       IN IF m = 0 THEN [text |-> SubSeq(s, i, Len(s)), next |-> Len(s) + 1, open |-> open]
          ELSE [text |-> SubSeq(s, i, m - 1), next |-> m, open |-> open]
  ELSE LET c == CharAt(s, i)
           c1 == IF i + 1 <= Len(s) THEN CharAt(s, i + 1) ELSE ""
           c2 == IF i + 2 <= Len(s) THEN CharAt(s, i + 2) ELSE ""
       IN IF c = "<" /\ IsLetter(c1)
          THEN LET q == FirstOf(s, i + 1, {">"})
               IN IF q = 0 THEN [text |-> "", next |-> Len(s) + 1, open |-> open]
                  ELSE LET n == FirstOf(s, i + 1, TagNameSeparators)
                           name == LowerString(SubSeq(s, i + 1, n - 1))
                           attrs == TrimAttributes(SubSeq(s, n, q - 1))
                           tag == "<" \o name
                                  \o (IF attrs = "" THEN "" ELSE " " \o attrs) \o ">"
                           e == ElementEnd(s, q + 1, name)
                       IN IF name \in VoidElements
                          THEN [text |-> tag, next |-> q + 1, open |-> open]
                          ELSE IF e > 0
                          THEN [text |-> tag \o SubSeq(s, q + 1, e - Len(name) - 4)
                                         \o "</" \o name \o ">",
                                next |-> e, open |-> open]
                          ELSE [text |-> tag, next |-> q + 1, open |-> <<name>> \o open]
          ELSE IF c = "<" /\ c1 = "/" /\ IsLetter(c2)
          THEN LET q == FirstOf(s, i + 2, {">"})
               IN IF q = 0 THEN [text |-> "", next |-> Len(s) + 1, open |-> open]
                  ELSE LET n == FirstOf(s, i + 2, TagNameSeparators)
                           name == LowerString(SubSeq(s, i + 2, n - 1))
                       IN IF IsOpen(open, name)
                          THEN [text |-> CloseAll(UpTo(open, name)), next |-> q + 1,
                                open |-> SubSeq(open, Len(UpTo(open, name)) + 1, Len(open))]
                          ELSE [text |-> "", next |-> q + 1, open |-> open]
          ELSE IF c = "<" THEN [text |-> "&lt;", next |-> i + 1, open |-> open]
          ELSE IF c = ">" THEN [text |-> "&gt;", next |-> i + 1, open |-> open]
          ELSE IF c = "&" /\ ~(IsLetter(c1) \/ IsDigit(c1) \/ c1 = "#")
          THEN [text |-> "&amp;", next |-> i + 1, open |-> open]
          ELSE [text |-> c, next |-> i + 1, open |-> open]

\* the serialisation of what the parser makes of s from index i on, with the
\* elements of open (innermost first) open
RECURSIVE Serialise(_, _, _)
Serialise(s, i, open) ==
  IF i > Len(s) THEN CloseAll(open)
  ELSE LET step == SerialiseStep(s, i, open)
       IN step.text \o Serialise(s, step.next, step.open)

\* ------------------------------------------------------------------ processContent
\* steps 2 and 3 exchanged: the partial censor before the full censor
ContentBeforeGlitch_PCensorFirst(content) ==
  CHOOSE r \in {ReplaceCensor(b, 1) :
                 b \in {ReplacePCensor(a, 1) :
                        a \in {NormaliseVoidTags(content)}}} : TRUE

\* the content after steps 1 to 3
ContentBeforeGlitch(content) ==
  CHOOSE r \in {ReplacePCensor(b, 1) :
                 b \in {ReplaceCensor(a, 1) :
                        a \in {NormaliseVoidTags(content)}}} : TRUE

\* handed: the string assigned to tmp.innerHTML; returned: tmp.innerHTML
processContent(content, fonts, rnd) ==
  CHOOSE r \in {[handed |-> h, returned |-> Serialise(h, 1, <<>>)] :
                 h \in {ReplaceGlitch(c, fonts, rnd) :
                        c \in {ContentBeforeGlitch(content)}}} : TRUE

\* the random sources a call on content can tell apart
RandomSourcesFor(content) ==
  IF HasGlitchMatch(ContentBeforeGlitch(content)) THEN RandomSources ELSE {<<0>>}

ProcessContent ==
  /\ returned = <<>>
  /\ \E rnd \in RandomSourcesFor(rawContent) :
     \E r \in {processContent(rawContent, glitchFonts, rnd)} :
       /\ handed' = <<r.handed>>
       /\ returned' = <<r.returned>>
  /\ UNCHANGED <<glitchFonts, rawContent, loaderVars, callVars, pageVars, navVars>>

\* the inputs of the full-censor check: one censor tag around a body of up to
\* MaxBody characters, between two pieces of plain text
MaxBody == 3

BodyChars == {"h", " ", "!", "\n"}

RECURSIVE StringsUpTo(_, _)
StringsUpTo(chars, n) ==
  IF n = 0 THEN {""}
  ELSE LET shorter == StringsUpTo(chars, n - 1)
       IN shorter \cup {s \o c : s \in shorter, c \in chars}

FontPools == {<<>>, <<"glitch-font-0", "glitch-font-1">>}

CensorOpenTags == {"<censor>", "<Censor>"}
TextsBefore == {"", "a b"}
TextsAfter == {"", "<p>x.</p>"}

InitCensor ==
  /\ LoaderIdle
  /\ CallsIdle
  /\ NavIdle
  /\ PageIdle
  /\ glitchFonts \in FontPools
  /\ \E before \in TextsBefore, after \in TextsAfter, open \in CensorOpenTags,
        body \in StringsUpTo(BodyChars, MaxBody) :
       rawContent = before \o open \o body \o "</censor>" \o after
  /\ handed = <<>>
  /\ returned = <<>>

NextContent == ProcessContent

SpecCensor == InitCensor /\ [][NextContent]_vars

\* the inputs of the partial-censor checks: one PCensor tag around a first word
\* of up to MaxWord characters and the words that follow it
MaxWord == 5

WordChars == {"a", "b"}
PCensorOpenTags == {"<PCensor>", "<pcensor>"}
WordsAfter == {"", " xyz", "  it works!", "\nq"}

InitPCensor ==
  /\ LoaderIdle
  /\ CallsIdle
  /\ NavIdle
  /\ PageIdle
  /\ glitchFonts \in FontPools
  /\ \E open \in PCensorOpenTags, word \in StringsUpTo(WordChars, MaxWord),
        rest \in WordsAfter :
       rawContent = "a b" \o open \o word \o rest \o "</PCensor><p>x.</p>"
  /\ handed = <<>>
  /\ returned = <<>>

SpecPCensor == InitPCensor /\ [][NextContent]_vars

\* the inputs of the glitch checks: one glitch tag, paired around "hello" with
\* each intensity, paired around each body of up to MaxBody characters, or
\* self-closed
IntensityTexts ==
  {"0", "1", "2", "3", "4", "5", "6", "7", "8", "9", "10", "11", "15", "007"}
GlitchBodyChars == {"h", " "}
BlankBodies == {"\t", " \t"}
SelfClosings == {"/>", " />"}

GlitchTags ==
  {"<glitch intensity=\"" \o n \o "\">hello</glitch>" : n \in IntensityTexts}
  \cup {"<Glitch  intensity=\"5\">" \o body \o "</GLITCH>" :
          body \in StringsUpTo(GlitchBodyChars, MaxBody) \cup BlankBodies}
  \cup {"<glitch intensity=\"" \o n \o "\"" \o c : n \in {"3", "15"}, c \in SelfClosings}

InitGlitch ==
  /\ LoaderIdle
  /\ CallsIdle
  /\ NavIdle
  /\ PageIdle
  /\ glitchFonts \in FontPools
  /\ \E tag \in GlitchTags : rawContent = "a b" \o tag \o "<br>"
  /\ handed = <<>>
  /\ returned = <<>>

SpecGlitch == InitGlitch /\ [][NextContent]_vars

\* the inputs of the checks on whole contents: ordinary HTML alone and inside
\* custom tags, a custom tag that matches no pattern beside one that does, and
\* contents on which the order of the steps shows
OrdinaryContents ==
  {"<p>a <b>b</b></p><br>",
   "<p><censor>hi</censor></p>",
   "<censor><b>x</b></censor>",
   "<PCensor>some <i>word</i></PCensor>"}

MalformedTags ==
  {"<censor>ab", "</censor>", "<PCensor>abcd", "</PCensor>",
   "<glitch>x</glitch>", "<glitch intensity=\"x\">y</glitch>", "</glitch>"}

WellFormedTags ==
  {"<censor>hi</censor>", "<PCensor>secret</PCensor>",
   "<glitch intensity=\"5\">g</glitch>"}

OrderContents ==
  {"<censor><br/></censor>",
   "<censor><PCensor>abcd</PCensor></censor>",
   "<PCensor><censor>ab</censor></PCensor>",
   "<censor><censor>x</censor></censor>",
   "<censor>a&b</censor>",
   "<cen<PCensor></PCensor>sor>hi</censor>",
   "<PCen<PCensor></PCensor>sor>abcd</PCensor>",
   "<gl<PCensor></PCensor>itch intensity=\"3\"/>",
   "<glitch intensity=\"3\">a<glitch intensity=\"4\"/></glitch>"}

Contents ==
  OrdinaryContents \cup OrderContents
  \cup {m \o w : m \in MalformedTags, w \in WellFormedTags}
  \cup {w \o m : m \in MalformedTags, w \in WellFormedTags}

InitContent ==
  /\ LoaderIdle
  /\ CallsIdle
  /\ NavIdle
  /\ PageIdle
  /\ glitchFonts \in FontPools
  /\ rawContent \in Contents
  /\ handed = <<>>
  /\ returned = <<>>

SpecContent == InitContent /\ [][NextContent]_vars

\* ------------------------------------------------------------------ claims
\* the call has finished and it got as far as parseXML
Parsed == pc = "done" /\ xmlString # <<>>

HasTitleAndId(d) == \A i \in 1..Len(d.items) : ~ItemLacksRequired(d.items[i])

\* a well-formed feed: feed > channel with N >= 1 items, each with title and id
WellFormedFeed(d) ==
  /\ ~d.parsererror
  /\ d.feed
  /\ d.channel = "inFeed"
  /\ Len(d.items) >= 1
  /\ HasTitleAndId(d)

\* C1: for a well-formed feed whose channel holds N >= 1 items, each with a
\* title and an id, the finished call returned success with exactly N records,
\* the i-th carrying the title and id of the i-th item, whichever path ran.
C1_RecordsInDocumentOrder ==
  (Parsed /\ WellFormedFeed(xmlString[1])) =>
    LET r == result[1]
        its == xmlString[1].items
    IN /\ r.success
       /\ Len(r.data) = Len(its)
       /\ \A i \in 1..Len(its) :
            /\ r.data[i].title = its[i].title[1]
            /\ r.data[i].id = its[i].id[1]

C1_Witness ==
  /\ Parsed /\ WellFormedFeed(xmlString[1])
  /\ Len(xmlString[1].items) = 2
  /\ xmlString[1].items[1].id # xmlString[1].items[2].id
  /\ mainParses = 1
  /\ result[1].success

\* the cases of the fail-fast policy: no feed > channel, no item element in the
\* document, or an item of the channel without title or id
FailFastCase(d) ==
  \/ d.channel # "inFeed"
  \/ Len(d.items) + d.strayItems = 0
  \/ ~HasTitleAndId(d)

\* C2: when the feed has no channel, or the document has no item element, or an
\* item of the channel (at any position) lacks a title or an id, the finished
\* call returned success=false with a non-empty error string and no data field.
C2_FailFast ==
  (Parsed /\ FailFastCase(xmlString[1])) =>
    /\ ~result[1].success
    /\ DOMAIN result[1] = {"success", "error"}
    /\ result[1].error # ""

C2_Witness ==
  /\ Parsed
  /\ Len(xmlString[1].items) = 2
  /\ ~ItemLacksRequired(xmlString[1].items[1])
  /\ ItemLacksRequired(xmlString[1].items[2])
  /\ workerReply # <<>>
  /\ ~result[1].success

ResultShape(r) ==
  \/ r.success /\ DOMAIN r = {"success", "data"}
  \/ ~r.success /\ DOMAIN r = {"success", "error"}

\* C3: the promise of loadXML/parseXML is never rejected; a finished call has
\* resolved it, and it resolves to {success: true, data} or {success: false, error}.
C3_NeverRejects ==
  /\ promise # "rejected"
  /\ pc = "done" => promise = "resolved"
  /\ promise = "resolved" => (result # <<>> /\ ResultShape(result[1]))

C3_Witness ==
  /\ pc = "done"
  /\ worker = "terminated"
  /\ workerReply = <<>>
  /\ mainParses = 1
  /\ promise = "resolved"
  /\ ~result[1].success

WorkerGone == worker \in {"none", "terminated"}

\* C4: the main-thread parse runs at most once per call, only after the worker
\* path has failed and the worker is gone; a call whose worker path failed has
\* run it exactly once when it finishes; a call whose worker succeeded has not
\* run it; and when the fallback fails too, the result carries the fallback's error.
C4_FallbackExactlyOnce ==
  /\ mainParses <= 1
  /\ (mainParses = 1 \/ pc = "fallback") => (workerFailed /\ WorkerGone)
  /\ pc = "fallback" => mainParses = 0
  /\ (pc = "done" /\ workerFailed) => mainParses = 1
  /\ (pc = "done" /\ worker = "terminated" /\ workerReply = <<>>) => mainParses = 1
  /\ (pc = "done" /\ workerReply # <<>>) =>
       IF workerReply[1].ok
       THEN mainParses = 0 /\ result[1] = Success(workerReply[1].value)
       ELSE mainParses = 1
  /\ (pc = "done" /\ mainParses = 1 /\ ~parseXMLMainThread(xmlString[1]).ok) =>
       result[1] = Failure(parseXMLMainThread(xmlString[1]).error)

C4_Witness ==
  /\ pc = "done"
  /\ workerReply # <<>>
  /\ ~workerReply[1].ok
  /\ workerReply[1].error = "Invalid XML: Missing <feed>, Missing <channel>"
  /\ mainParses = 1
  /\ result[1] = Failure("No <feed><channel> found")

\* C5: whichever path produced it, the result of a finished parse has the success
\* flag and the records that the main-thread parse gives for the same feed text.
C5_PathsEquivalent ==
  Parsed =>
    LET m == ParseXMLFallback(xmlString[1]).value
    IN /\ result[1].success = m.success
       /\ result[1].success => result[1].data = m.data

\* C6: a successful result always carries at least one record.
C6_SuccessHasRecords ==
  (Parsed /\ result[1].success) => Len(result[1].data) >= 1

\* the first structural check, in the order feed, channel, item, that d violates
FirstViolatedCheck(d) ==
  IF ~d.feed THEN "feed"
  ELSE IF d.channel = "none" THEN "channel"
  ELSE IF d.channel = "inFeed" /\ Len(d.items) + d.strayItems = 0 THEN "item"
  ELSE "none"

\* C7: a syntactically valid feed that violates a structural check fails with a
\* message that no feed violating a different check first gets; a feed with a
\* valid channel and zero items fails with the no-items message.
C7_DistinctMessages ==
  (Parsed /\ ~xmlString[1].parsererror /\ FirstViolatedCheck(xmlString[1]) # "none") =>
    /\ ~result[1].success
    /\ FirstViolatedCheck(xmlString[1]) = "item" =>
         result[1].error = "No <item> elements found"
    /\ \A d \in Docs :
         (/\ ~d.parsererror
          /\ FirstViolatedCheck(d) \notin {"none", FirstViolatedCheck(xmlString[1])})
         => ParseXMLFallback(d).value # result[1]

\* C8: every record of a successful result has a non-empty title and a non-empty id.
C8_NonEmptyTitleAndId ==
  (Parsed /\ result[1].success) =>
    \A i \in 1..Len(result[1].data) :
      result[1].data[i].title # "" /\ result[1].data[i].id # ""

\* C9: once the fetch was rejected or answered with ok=false, the call is finished
\* with success=false and a message, it fetched once, and neither the worker
\* parse nor the main-thread parse was started.
C9_FetchFailureStops ==
  fetchOutcome \in {"rejected", "notOk"} =>
    /\ pc = "done"
    /\ promise = "resolved"
    /\ ~result[1].success
    /\ result[1].error # ""
    /\ fetches = 1
    /\ xmlString = <<>>
    /\ workersCreated = 0
    /\ worker = "none"
    /\ mainParses = 0

C9_Witness ==
  /\ fetchOutcome = "notOk"
  /\ pc = "done"
  /\ result[1] = Failure("Failed to load XML: Not Found")

\* the first <censor> tag of the content and the first </censor> after it
CensorOpenIndex == First({i \in 1..Len(rawContent) : MatchesAt(rawContent, i, "<censor>")})
CensorCloseIndex ==
  First({j \in (CensorOpenIndex + 8)..Len(rawContent) :
           MatchesAt(rawContent, j, "</censor>")})
CensorBody == SubSeq(rawContent, CensorOpenIndex + 8, CensorCloseIndex - 1)

\* C10: processContent returns the content with <censor>body</censor> replaced
\* by a censor-text container of exactly Len(body) block glyphs, whatever the
\* characters of body (letters, spaces, punctuation, line breaks); the text
\* around the tag is returned as it was and nothing of body is left.
C10_FullCensor ==
  (returned # <<>> /\ CensorOpenIndex > 0 /\ CensorCloseIndex > 0) =>
    returned[1] = SubSeq(rawContent, 1, CensorOpenIndex - 1)
                  \o "<span class=\"censor-text\">"
                  \o Repeat("█", Len(CensorBody))
                  \o "</span>"
                  \o SubSeq(rawContent, CensorCloseIndex + 9, Len(rawContent))

\* the first <PCensor> tag of the content and the first </PCensor> after it
PCensorOpenIndex == First({i \in 1..Len(rawContent) : MatchesAt(rawContent, i, "<pcensor>")})
PCensorCloseIndex ==
  First({j \in (PCensorOpenIndex + 9)..Len(rawContent) :
           MatchesAt(rawContent, j, "</pcensor>")})
PCensorBody == SubSeq(rawContent, PCensorOpenIndex + 9, PCensorCloseIndex - 1)

\* the tag is one the pattern of step 3 matches (its body holds no line break)
PCensorMatched ==
  /\ PCensorOpenIndex > 0
  /\ PCensorCloseIndex > 0
  /\ \A q \in 1..Len(PCensorBody) : ~IsLineTerminator(CharAt(PCensorBody, q))

\* the word of s around position p: the run of characters other than the space
WordStartAt(s, p) ==
  CHOOSE a \in 1..p :
    /\ \A q \in a..p : CharAt(s, q) # " "
    /\ a = 1 \/ CharAt(s, a - 1) = " "
WordEndAt(s, p) ==
  CHOOSE e \in p..Len(s) :
    /\ \A q \in p..e : CharAt(s, q) # " "
    /\ e = Len(s) \/ CharAt(s, e + 1) = " "

\* the length of the word around position p and the index of p in it (from 0)
WordLengthAt(s, p) == WordEndAt(s, p) - WordStartAt(s, p) + 1
WordIndexAt(s, p) == p - WordStartAt(s, p)

\* position p of out shows the character of position p of body, or masks it
ShownAt(body, out, p) == CharAt(out, p) = CharAt(body, p)
MaskedAt(body, out, p) == CharAt(body, p) # " " /\ CharAt(out, p) = "*"

\* the rule of the current revision: index i of a word of length L stays visible
VisibleFirstAndSecondToLast(L, i) ==
  \/ L <= 2
  \/ L = 3 /\ i \in {0, 2}
  \/ L >= 4 /\ i \in {0, L - 2}

\* the rule the README documents: the first floor(0.3 * L) characters
VisibleThirtyPercent(L, i) == L <= 3 \/ 10 * (i + 1) <= 3 * L

\* what processContent returned where the PCensor tag was
PCensorOutput ==
  SubSeq(returned[1], PCensorOpenIndex,
         Len(returned[1]) - (Len(rawContent) - (PCensorCloseIndex + 9)))

PCensorFrameKept ==
  /\ SubSeq(returned[1], 1, PCensorOpenIndex - 1)
       = SubSeq(rawContent, 1, PCensorOpenIndex - 1)
  /\ SubSeq(returned[1], PCensorOpenIndex + Len(PCensorOutput), Len(returned[1]))
       = SubSeq(rawContent, PCensorCloseIndex + 10, Len(rawContent))

C12_ThirtyPercent ==
  (returned # <<>> /\ PCensorMatched) =>
    /\ Len(PCensorOutput) = Len(PCensorBody)
    /\ \A p \in 1..Len(PCensorBody) :
         IF \/ CharAt(PCensorBody, p) = " "
            \/ VisibleThirtyPercent(WordLengthAt(PCensorBody, p),
                                    WordIndexAt(PCensorBody, p))
         THEN ShownAt(PCensorBody, PCensorOutput, p)
         ELSE MaskedAt(PCensorBody, PCensorOutput, p)

\* ---- the glitch markup read back from the string handed to step 5
GlitchContainerOpen == "<span class=\"glitch-container\">"
GlitchCharOpen == "<span class=\"glitch-char\" style=\""
BadSlot == [kind |-> "bad", style |-> "", display |-> ""]

\* the slots of a glitch container, from index i of h up to its </span>: a
\* space, or a glitch-char span with its style and the character it displays
RECURSIVE SlotsFrom(_, _)
SlotsFrom(h, i) ==
  IF i > Len(h) THEN <<BadSlot>>
  ELSE IF MatchesAt(h, i, "</span>") THEN <<>>
  ELSE IF CharAt(h, i) = " "
  THEN <<[kind |-> "space", style |-> "", display |-> " "]>> \o SlotsFrom(h, i + 1)
  ELSE IF MatchesAt(h, i, GlitchCharOpen)
  THEN LET r == FirstOf(h, i + Len(GlitchCharOpen), {">"})
           q == r - 1
       IN IF r = 0 \/ CharAt(h, q) # "\"" \/ ~MatchesAt(h, q + 3, "</span>")
          THEN <<BadSlot>>
          ELSE <<[kind |-> "char",
                  style |-> SubSeq(h, i + Len(GlitchCharOpen), q - 1),
                  display |-> CharAt(h, q + 2)]>>
               \o SlotsFrom(h, q + 10)
  ELSE <<BadSlot>>

GlitchContainerIndex ==
  First({i \in 1..Len(handed[1]) : MatchesAt(handed[1], i, GlitchContainerOpen)})

\* the slots of the first glitch container of the handed string
GlitchSlots ==
  IF GlitchContainerIndex = 0 THEN <<BadSlot>>
  ELSE SlotsFrom(handed[1], GlitchContainerIndex + Len(GlitchContainerOpen))

CharSlots(slots) == {p \in 1..Len(slots) : slots[p].kind = "char"}

\* the value of --glitch-speed in a style, without the unit
SpeedOfStyle(style) ==
  LET a == First({n \in 1..Len(style) : MatchesAt(style, n, "--glitch-speed:")})
  IN IF a = 0 THEN "" ELSE SubSeq(style, a + 15, Len(style) - 2)

\* the first glitch tag of the content that a pattern of step 4 matches
GlitchTagIndex ==
  First({i \in TagStarts(rawContent, 1) :
           GlitchPairedClose(rawContent, i) > 0 \/ GlitchSelfClosedEnd(rawContent, i) > 0})
GlitchIsPaired == GlitchPairedClose(rawContent, GlitchTagIndex) > 0
GlitchIntensityDigits ==
  SubSeq(rawContent, GlitchOpen(rawContent, GlitchTagIndex).from,
         GlitchOpen(rawContent, GlitchTagIndex).to)
GlitchBody ==
  IF GlitchIsPaired
  THEN SubSeq(rawContent, GlitchOpen(rawContent, GlitchTagIndex).to + 3,
              GlitchPairedClose(rawContent, GlitchTagIndex) - 1)
  ELSE ""

\* the number a string of decimal digits writes
RECURSIVE DecimalValue(_)
DecimalValue(digits) ==
  IF digits = "" THEN 0
  ELSE 10 * DecimalValue(SubSeq(digits, 1, Len(digits) - 1))
       + (CHOOSE d \in 0..9 : CharAt(Digits, d + 1) = CharAt(digits, Len(digits)))

\* min(max(N, 2), 10)
ClampedTo2And10(n) == IF n < 2 THEN 2 ELSE IF n > 10 THEN 10 ELSE n

GlitchRendered == returned # <<>> /\ GlitchTagIndex > 0

\* C13: where the content held a glitch tag that step 4 matches, with the
\* intensity attribute writing the number N, every glitch-char span carries the
\* animation speed of the intensity min(max(N, 2), 10), and there is such a span.
C13_IntensityClamped ==
  GlitchRendered =>
    \A slots \in {GlitchSlots} :
    \A speed \in {SpeedText(ClampedTo2And10(DecimalValue(GlitchIntensityDigits)))} :
      /\ CharSlots(slots) # {}
      /\ \A p \in CharSlots(slots) : SpeedOfStyle(slots[p].style) = speed

\* <glitch intensity="15">hello</glitch> was rendered with five glitch-char
\* spans at the speed of intensity 10
C13_Witness ==
  /\ rawContent = "a b<glitch intensity=\"15\">hello</glitch><br>"
  /\ returned # <<>>
  /\ \E slots \in {GlitchSlots} :
       /\ Len(slots) = 5
       /\ \A p \in 1..5 :
            /\ slots[p].kind = "char"
            /\ SpeedOfStyle(slots[p].style) = "0.09999999999999998"

InPool(c) == \E n \in 1..Len(pool) : CharAt(pool, n) = c
HasNonWhitespace(text) == \E p \in 1..Len(text) : ~IsSpace(CharAt(text, p))

FractionDigit(text, k) ==
  IF k + 2 <= Len(text)
  THEN CHOOSE d \in 0..9 : CharAt(Digits, d + 1) = CharAt(text, k + 2)
  ELSE 0

IsFraction(text) ==
  /\ Len(text) >= 3
  /\ SubSeq(text, 1, 2) = "0."
  /\ \A k \in 3..Len(text) : IsDigit(CharAt(text, k))

DecimalLess(a, b) ==
  \E k \in 1..Max(Len(a), Len(b)) :
    /\ FractionDigit(a, k) < FractionDigit(b, k)
    /\ \A m \in 1..(k - 1) : FractionDigit(a, m) = FractionDigit(b, m)

DecimalLeq(a, b) == ~DecimalLess(b, a)

IsPositiveFraction(text) == IsFraction(text) /\ DecimalLess("0.0", text)

\* the speed the rendered glitch tag carries ("" when it has no glitch-char
\* span), and the intensity it was given
RenderedSpeed ==
  CHOOSE speed \in {IF CharSlots(slots) = {} THEN ""
                    ELSE SpeedOfStyle(slots[CHOOSE p \in CharSlots(slots) : TRUE].style) :
                    slots \in {GlitchSlots}} : TRUE
RenderedIntensity == ClampedTo2And10(DecimalValue(GlitchIntensityDigits))

\* C15: the speed a rendered glitch tag carries is greater than 0 and not
\* below the minimum 0.08, and it is ordered against the speed of every other
\* intensity of 2..10: a higher intensity has a speed that is not greater, a
\* lower intensity a speed that is not smaller.
C15_SpeedMonotoneAndPositive ==
  GlitchRendered =>
    \A speed \in {RenderedSpeed}, intensity \in {RenderedIntensity} :
      /\ IsPositiveFraction(speed)
      /\ DecimalLeq("0.08", speed)
      /\ \A j \in 2..10 :
           /\ IsPositiveFraction(SpeedText(j))
           /\ j > intensity => DecimalLeq(SpeedText(j), speed)
           /\ j < intensity => DecimalLeq(speed, SpeedText(j))

\* a tag of intensity 9 was rendered with a speed strictly between those of
\* the intensities 8 and 10
C15_Witness ==
  /\ rawContent = "a b<glitch intensity=\"9\">hello</glitch><br>"
  /\ returned # <<>>
  /\ \E speed \in {RenderedSpeed} :
       DecimalLess(SpeedText(10), speed) /\ DecimalLess(speed, SpeedText(8))

\* ---- whole contents
\* the number of places of s where the tag t stands
Occurrences(s, t) == Cardinality({i \in 1..Len(s) : MatchesAt(s, i, t)})

OrdinaryTags == {"<p>", "</p>", "<b>", "</b>", "<i>", "</i>", "<br>"}

\* C16: every ordinary HTML tag of the content, also one inside the body of a
\* censor, PCensor or glitch tag, stands as often in the string handed to the
\* normalisation step as it stood in the content.
C16_OrdinaryHtmlUntouched ==
  returned # <<>> =>
    \A t \in OrdinaryTags :
      Occurrences(handed[1], t) = Occurrences(rawContent, t)

\* contents on which the order of the steps shows, each with the string the
\* fixed order void fixups, censor, PCensor, glitch hands to the normalisation
OrderCases ==
  {[content |-> "<censor><br/></censor>",
    out |-> "<span class=\"censor-text\">" \o Repeat("█", 4) \o "</span>"],
   [content |-> "<censor><PCensor>abcd</PCensor></censor>",
    out |-> "<span class=\"censor-text\">" \o Repeat("█", 23) \o "</span>"],
   [content |-> "<PCensor><censor>ab</censor></PCensor>",
    out |-> "<**a* c" \o Repeat("*", 26) \o "n*"],
   [content |-> "<censor><censor>x</censor></censor>",
    out |-> "<span class=\"censor-text\">" \o Repeat("█", 9) \o "</span></censor>"],
   [content |-> "<censor>a&b</censor>",
    out |-> "<span class=\"censor-text\">" \o Repeat("█", 3) \o "</span>"],
   [content |-> "<cen<PCensor></PCensor>sor>hi</censor>",
    out |-> "<censor>hi</censor>"],
   [content |-> "<PCen<PCensor></PCensor>sor>abcd</PCensor>",
    out |-> "<PCensor>abcd</PCensor>"]}

\* the handed string is one glitch container and nothing else of a glitch tag
OneGlitchContainer(h, slots) ==
  /\ MatchesAt(h, 1, GlitchContainerOpen)
  /\ Occurrences(h, GlitchContainerOpen) = 1
  /\ Occurrences(h, GlitchCharOpen) = Cardinality(CharSlots(slots))
  /\ Occurrences(h, "<gl") = 0
  /\ Occurrences(h, "</glitch>") = 0
  /\ MatchesAt(h, Len(h) - 6, "</span>")
  /\ \A p \in 1..Len(slots) : slots[p].kind \in {"space", "char"}

\* C17: the steps run once each in the order void fixups, full censor, partial
\* censor, paired glitch, self-closed glitch, each on the output of the steps
\* before it: a void tag is fixed before its characters are censored, a PCensor
\* tag inside a censor body is censored and not masked, a censor tag inside a
\* PCensor body is censored and its markup then masked, a censor or PCensor tag
\* that only arises from a replacement of step 2 or 3 is handed on as it is, a
\* glitch tag that arises from step 3 is rendered, and a self-closed glitch tag
\* inside a paired one is body text of the paired one.
C17_FixedOrderOnce ==
  returned # <<>> =>
    /\ \A c \in OrderCases : rawContent = c.content => handed[1] = c.out
    /\ rawContent = "<gl<PCensor></PCensor>itch intensity=\"3\"/>" =>
         \A slots \in {GlitchSlots} :
           /\ OneGlitchContainer(handed[1], slots)
           /\ Len(slots) \in 3..7
           /\ \A p \in 1..Len(slots) :
                SpeedOfStyle(slots[p].style) = "0.44999999999999996"
    /\ rawContent = "<glitch intensity=\"3\">a<glitch intensity=\"4\"/></glitch>" =>
         \A slots \in {GlitchSlots} :
           /\ OneGlitchContainer(handed[1], slots)
           /\ Len(slots) = 24
           /\ \A p \in 1..Len(slots) :
                IF p = 9 THEN slots[p].kind = "space"
                ELSE SpeedOfStyle(slots[p].style) = "0.44999999999999996"

\* a PCensor tag inside a censor body was censored with the body, not masked
C17_Witness ==
  /\ rawContent = "<censor><PCensor>abcd</PCensor></censor>"
  /\ handed = <<"<span class=\"censor-text\">" \o Repeat("█", 23) \o "</span>">>
  /\ returned = handed

\* part is what step 2, 3 or 4 makes of the well-formed tag w
IsTransformed(w, part) ==
  CASE w = "<censor>hi</censor>" -> part = "<span class=\"censor-text\">██</span>"
    [] w = "<PCensor>secret</PCensor>" -> part = "s***e*"
    [] w = "<glitch intensity=\"5\">g</glitch>" ->
         \A slots \in {SlotsFrom(part, Len(GlitchContainerOpen) + 1)} :
           /\ OneGlitchContainer(part, slots)
           /\ Len(slots) = 1
           /\ CharSlots(slots) = {1}
    [] OTHER -> FALSE

\* a pattern of steps 2 to 4 matches from the first character of the content
MatchStartsContent ==
  \/ CensorClose(rawContent, 1) > 0
  \/ PCensorClose(rawContent, 1) > 0
  \/ GlitchPairedClose(rawContent, 1) > 0
  \/ GlitchSelfClosedEnd(rawContent, 1) > 0

\* C18: processContent has returned a string, and where the content is a custom
\* tag that no pattern matches (no closing tag, a closing tag alone, a glitch
\* tag without intensity or with a non-digit intensity) before or after a
\* well-formed custom tag, the unmatched tag is handed on character by
\* character and the well-formed tag is transformed.
C18_SoftFailure ==
  returned # <<>> =>
    /\ handed # <<>>
    /\ \A m \in MalformedTags, w \in WellFormedTags :
         \A h \in {handed[1]} :
           /\ (rawContent = m \o w /\ ~MatchStartsContent) =>
                /\ Len(h) > Len(m)
                /\ SubSeq(h, 1, Len(m)) = m
                /\ IsTransformed(w, SubSeq(h, Len(m) + 1, Len(h)))
           /\ rawContent = w \o m =>
                /\ Len(h) > Len(m)
                /\ SubSeq(h, Len(h) - Len(m) + 1, Len(h)) = m
                /\ IsTransformed(w, SubSeq(h, 1, Len(h) - Len(m)))

\* a glitch tag without intensity was handed on before a censored text
C18_Witness ==
  /\ rawContent = "<glitch>x</glitch><censor>hi</censor>"
  /\ handed = <<"<glitch>x</glitch><span class=\"censor-text\">██</span>">>
  /\ returned # <<>>

\* ------------------------------------------------------------------ worker lifecycle
\* the workers a call constructed
CallWorkers(c) == {w \in 1..Len(workers) : workers[w].createdBy = c}

\* the call's worker promise is settled or the call has returned
Reported(c) == calls[c].workerPromise # <<>> \/ calls[c].result # <<>>

\* C19: a parseXML call constructs at most one worker; once that worker has
\* reported a message or an error to the call (the worker promise is settled,
\* a fortiori once the call has a result, consumed or not) the worker is
\* terminated and its object URL revoked; no worker belongs to two calls.
C19_OneWorkerTerminatedOnReport ==
  \A c \in 1..MaxCalls :
    /\ Cardinality(CallWorkers(c)) <= 1
    /\ CallWorkers(c) = IF calls[c].worker = 0 THEN {} ELSE {calls[c].worker}
    /\ \A w \in CallWorkers(c) :
         /\ Reported(c) => /\ workers[w].state = "terminated"
                           /\ calls[c].workerUrl = "revoked"
         /\ \A d \in 1..MaxCalls : d # c => calls[d].worker # w

\* one call has returned, its result not read, its worker terminated and its
\* URL revoked, while a later call's worker is still at work
C19_Witness ==
  \E c, d \in 1..MaxCalls :
    /\ calls[c].pc = "done" /\ ~calls[c].consumed /\ calls[c].result # <<>>
    /\ calls[c].worker = 1 /\ workers[1].state = "terminated"
    /\ calls[c].workerUrl = "revoked"
    /\ calls[d].pc = "awaitWorker" /\ calls[d].worker = 2
    /\ workers[2].state = "running"

\* ------------------------------------------------------------------ calls in flight together
\* what the worker promise of a call made with doc can settle with
OwnOutcomes(doc) ==
  {WorkerOnMessage(doc, hasDOMParser) : hasDOMParser \in BOOLEAN}
  \cup {Threw("Worker error: " \o WorkerErrorText), Threw(ConstructorErrorText)}

\* what worker w reported: its reply, or an error event
ReportOf(w) ==
  IF workers[w].reply # <<>> THEN workers[w].reply[1]
  ELSE Threw("Worker error: " \o WorkerErrorText)

\* C20: with several parseXML calls in flight, under every interleaving of the
\* workers' replies, a call that was not made is untouched; every worker holds
\* the feed text of the call that constructed it; a call that awaits its worker
\* has it neither terminated nor its promise settled by another worker's
\* reply; a settled worker promise holds the report of the call's own worker;
\* and every result is what parseXML computes from the call's own feed text.
C20_NoCrossContamination ==
  \A c \in 1..MaxCalls :
    /\ calls[c].pc = "idle" => calls[c] = IdleCall
    /\ \A w \in CallWorkers(c) :
         /\ calls[c].worker = w
         /\ workers[w].data = calls[c].xmlString[1]
    /\ calls[c].pc = "awaitWorker" =>
         /\ calls[c].worker # 0
         /\ workers[calls[c].worker].state # "terminated"
         /\ calls[c].workerUrl = "live"
         /\ calls[c].workerPromise = <<>>
    /\ calls[c].workerPromise # <<>> =>
         /\ calls[c].workerPromise[1] \in OwnOutcomes(calls[c].xmlString[1])
         /\ calls[c].worker # 0 =>
              /\ workers[calls[c].worker].state = "terminated"
              /\ calls[c].workerPromise[1] = ReportOf(calls[c].worker)
    /\ calls[c].result # <<>> =>
         calls[c].result[1] =
           ParseXMLOutcome(calls[c].xmlString[1], calls[c].workerPromise[1])

\* two calls with different feed texts were in flight together and the worker
\* constructed second was answered first: its call has returned its own list
\* while the other call still awaits a worker that has replied
C20_Witness ==
  \E c, d \in 1..MaxCalls :
    /\ calls[c].pc = "done" /\ calls[c].worker = 2
    /\ calls[c].xmlString # calls[d].xmlString
    /\ calls[c].workerPromise[1].ok
    /\ calls[c].result[1] =
         Settled("resolved", Success(MapParseItem(calls[c].xmlString[1].items, <<>>).value))
    /\ calls[d].pc = "awaitWorker" /\ calls[d].worker = 1
    /\ workers[1].state = "replied"
    /\ workers[1].reply[1].ok

\* ------------------------------------------------------------------ waiting for the worker
\* the worker was constructed and parseXML has not been told of a report
WorkerOutstanding == worker \in {"running", "replied", "errored"}

\* C21: the wait has no timeout.  While the worker of a call is outstanding
\* the call stays at its await: nothing is returned and the main-thread parse
\* is not started; the call leaves the await only in the handler of a message
\* or of an error of its worker.  When the worker reports, the call resolves.
C21_NoTimeout ==
  /\ [](WorkerOutstanding =>
         /\ pc = "awaitWorker"
         /\ promise = "pending"
         /\ result = <<>>
         /\ mainParses = 0)
  /\ [][(pc = "awaitWorker" /\ pc' # "awaitWorker") =>
         (worker \in {"replied", "errored"} /\ worker' = "terminated")]_vars
  /\ ((pc = "awaitWorker") ~> (pc = "done" /\ promise = "resolved" /\ result # <<>>))

\* the worker was constructed and has not reported: parseXML waits
C21_Witness ==
  /\ pc = "awaitWorker"
  /\ worker = "running"
  /\ workersCreated = 1
  /\ promise = "pending"
  /\ mainParses = 0

\* ------------------------------------------------------------------ spacing of the partial censor
\* where the runs of spaces of s start, and how wide the run at p is
SpaceRunStarts(s) ==
  {p \in 1..Len(s) : CharAt(s, p) = " " /\ (p = 1 \/ CharAt(s, p - 1) # " ")}
SpaceRunWidth(s, p) ==
  Cardinality({q \in p..Len(s) : \A r \in p..q : CharAt(s, r) = " "})

\* the widths of the runs of spaces of s, from left to right
Spacing(s) ==
  [k \in 1..Cardinality(SpaceRunStarts(s)) |->
     SpaceRunWidth(s, CHOOSE p \in SpaceRunStarts(s) :
                        Cardinality({q \in SpaceRunStarts(s) : q < p}) = k - 1)]

HasSpaceRun(s) == \E p \in SpaceRunStarts(s) : SpaceRunWidth(s, p) >= 2

\* C23 as stated: a matched PCensor body with a run of several spaces between
\* words comes out with a spacing other than the one it had.
C23_SpacingNotPreserved ==
  (returned # <<>> /\ PCensorMatched /\ HasSpaceRun(PCensorBody)) =>
    Spacing(PCensorOutput) # Spacing(PCensorBody)

\* C23 amended: the body is split at every single space and the masked words
\* are joined with single spaces, an empty word standing between two adjacent
\* spaces, so the output has a space exactly where the body has one: the
\* inter-word spacing is preserved.
C23_SpacingPreserved ==
  (returned # <<>> /\ PCensorMatched) =>
    /\ Len(PCensorOutput) = Len(PCensorBody)
    /\ \A p \in 1..Len(PCensorBody) :
         (CharAt(PCensorOutput, p) = " ") = (CharAt(PCensorBody, p) = " ")
    /\ Spacing(PCensorOutput) = Spacing(PCensorBody)
    /\ Len(Split(PCensorBody, 1))
         = Cardinality({p \in 1..Len(PCensorBody) : CharAt(PCensorBody, p) = " "}) + 1

\* a body with two spaces between its words was processed and kept both
C23_Witness ==
  /\ rawContent = "a b<pcensor>ab  it works!</PCensor><p>x.</p>"
  /\ returned = <<"a bab  it w***s*<p>x.</p>">>
  /\ HasSpaceRun(PCensorBody)

\* ------------------------------------------------------------------ pubDate of a record
\* the lists of records the call produced: the worker's reply and the result
ProducedLists ==
  (IF workerReply # <<>> /\ workerReply[1].ok THEN {workerReply[1].value} ELSE {})
  \cup (IF result # <<>> /\ result[1].success THEN {result[1].data} ELSE {})

\* x is the pair {date, timezone} built from the pubDate element e
IsPairOf(x, e) ==
  /\ DOMAIN x = {"date", "timezone"}
  /\ x.date = (IF e.date = <<>> THEN "" ELSE e.date[1])
  /\ x.timezone = (IF e.timezone = <<>> THEN "" ELSE e.timezone[1])

\* C24 as stated: the record of an item without pubDate element has no pubDate
\* at all, and the record of an item with one holds the pair {date, timezone}
\* with "" for a missing child.
C24_PubDateAbsentOrPair ==
  \A data \in ProducedLists : \A i \in 1..Len(data) :
    IF feed.items[i].pubDate = <<>>
    THEN "pubDate" \notin DOMAIN data[i]
    ELSE /\ "pubDate" \in DOMAIN data[i]
         /\ IsPairOf(data[i].pubDate, feed.items[i].pubDate[1])

\* C24 amended: every record produced by either path has a pubDate; for an
\* item without pubDate element it is the empty object {} (neither date nor
\* timezone), and for an item with one it is the pair {date, timezone} with ""
\* for a missing child.
C24_PubDateEmptyObjectOrPair ==
  \A data \in ProducedLists :
    /\ Len(data) = Len(feed.items)
    /\ \A i \in 1..Len(data) :
         /\ "pubDate" \in DOMAIN data[i]
         /\ IF feed.items[i].pubDate = <<>>
            THEN DOMAIN data[i].pubDate = {}
            ELSE IsPairOf(data[i].pubDate, feed.items[i].pubDate[1])

\* the main-thread path produced two records: one of an item without pubDate
\* element, one of an item whose pubDate has a date and no timezone
C24_Witness ==
  /\ pc = "done" /\ mainParses = 1
  /\ result # <<>> /\ result[1].success
  /\ Len(feed.items) = 2
  /\ feed.items[1].pubDate = <<>>
  /\ feed.items[2].pubDate # <<>>
  /\ feed.items[2].pubDate[1].date = <<"1770976574">>
  /\ feed.items[2].pubDate[1].timezone = <<>>
  /\ DOMAIN result[1].data[1].pubDate = {}
  /\ result[1].data[2].pubDate = [date |-> "1770976574", timezone |-> ""]

\* ------------------------------------------------------------------ items sharing an id
\* two or more items of the channel carry the same id
HasDuplicateIds(d) ==
  \E i, j \in 1..Len(d.items) :
    i # j /\ d.items[i].id # <<>> /\ d.items[i].id = d.items[j].id

\* C25: a well-formed feed in which two or more items carry the same id parses
\* successfully on either path, and every item, those sharing an id included,
\* yields its own record at its own position: none is dropped or merged.
C25_DuplicateIdsKept ==
  (WellFormedFeed(feed) /\ HasDuplicateIds(feed)) =>
    /\ workerReply # <<>> =>
         (workerReply[1].ok <=> workerReply[1] = Returned([i \in 1..Len(feed.items) |-> RecordOf(feed.items[i])]))
    /\ Parsed =>
         /\ promise = "resolved"
         /\ result[1].success
         /\ Len(result[1].data) = Len(feed.items)
         /\ \A i \in 1..Len(feed.items) :
              /\ result[1].data[i].id = feed.items[i].id[1]
              /\ result[1].data[i].title = feed.items[i].title[1]

\* two items with the same id and different titles, parsed by the worker:
\* two records with that id, in document order
C25_Witness ==
  /\ Parsed /\ mainParses = 0
  /\ Len(feed.items) = 2
  /\ feed.items[1].id = <<"1">> /\ feed.items[2].id = <<"1">>
  /\ feed.items[1].title = <<"">> /\ feed.items[2].title = <<"T">>
  /\ result[1].success
  /\ Len(result[1].data) = 2
  /\ result[1].data[1].id = "1" /\ result[1].data[2].id = "1"
  /\ result[1].data[1].title = "" /\ result[1].data[2].title = "T"

\* ------------------------------------------------------------------ devLOGS page (index.js)
LOGS_PER_PAGE == 5

\* const files = [...] of loadGlitchFonts
NumFontFiles == 7
FontName(i) == "glitch-font-" \o CharAt(Digits, i + 1)

\* the files whose load fails in some runs: the first and the last
FontsThatMayFail == {0, 6}

\* bounds: the items of a feed of the list checks, and the session history
\* entries
MaxLogs == 11
MaxHistory == 3

\* the id of the i-th post of a generated feed
IdText(i) ==
  IF i < 10 THEN CharAt(Digits, i + 1)
  ELSE CharAt(Digits, (i \div 10) + 1) \o CharAt(Digits, (i % 10) + 1)

PostItem(id, type, content) ==
  [ItemWith(<<"T">>, <<id>>) EXCEPT !.type = <<type>>, !.content = <<content>>]

\* n posts: x of type a, then y of type b, the others without type
TypedFeed(n, x, y) ==
  FeedWith([i \in 1..n |->
              PostItem(IdText(i),
                       IF i <= x THEN "a" ELSE IF i <= x + y THEN "b" ELSE "",
                       "")])

\* logs.xml of the list checks
ListFeeds ==
  {TypedFeed(n, x, y) : n \in 1..MaxLogs, x \in 0..MaxLogs, y \in 0..MaxLogs}

\* logs.xml: one post with a glitch tag; two posts of two types sharing an id;
\* a feed with an item without id; a feed whose items are all outside the
\* channel; a feed of one post more than a page holds
PageFeeds ==
  {FeedWith(<<PostItem("1", "", "<glitch intensity=\"5\">g</glitch>")>>),
   FeedWith(<<PostItem("1", "a", "first"),
              PostItem("1", "b", "<censor>hi</censor>")>>),
   FeedWith(<<ItemWith(<<"T">>, <<>>)>>),
   [FeedWith(<<>>) EXCEPT !.strayItems = 1],
   TypedFeed(LOGS_PER_PAGE + 1, 0, 0)}

\* what await loadXML('logs.xml') can give for the document behind the url
LoadXMLResults(doc) ==
  {Failure(NetworkErrorText)}
  \cup {ParseXMLOutcome(doc, WorkerOnMessage(doc, hasDOMParser)).value :
          hasDOMParser \in BOOLEAN}

\* the hash of the url the page is opened with, and the hashes typed later
InitialHashes == {"", "1", "zz"}
TypedHashes == {"1", "zz"}

\* the page is opened on logs.xml = doc with the hash of hashes in its url
PageOpens(docs, hashes) ==
  /\ feed \in docs
  /\ pc = "idle"
  /\ fetches = 0
  /\ fetchOutcome = "none"
  /\ xmlString = <<>>
  /\ worker = "none"
  /\ workersCreated = 0
  /\ workerReply = <<>>
  /\ workerFailed = FALSE
  /\ mainParses = 0
  /\ promise = "pending"
  /\ result = <<>>
  /\ ContentIdle
  /\ CallsIdle
  /\ NavIdle
  /\ initPc = "boot"
  /\ fontIndex = 0
  /\ devLogs = <<>>
  /\ mapped = <<>>
  /\ processCalls = 0
  /\ currentFilter = "all"
  /\ currentPage = 1
  /\ listed = <<>>
  /\ pagination = <<>>
  /\ filterButtons = <<>>
  /\ overlayOpen = FALSE
  /\ overlayLog = <<>>
  /\ scrollLocked = FALSE
  /\ \E hash \in hashes : history = <<hash>>
  /\ historyIndex = 1

InitPage == PageOpens(PageFeeds, InitialHashes)

InitList == PageOpens(ListFeeds, {""})

\* the members of a set of numbers, in increasing order
Ascending(S) ==
  [k \in 1..Cardinality(S) |->
     CHOOSE i \in S : Cardinality({j \in S : j < i}) = k - 1]

\* [...new Set(devLogs.map(l => l.type).filter(Boolean))], and no filter bar
\* unless there is more than one type
SetupFilters(logs) ==
  LET firsts == {i \in 1..Len(logs) :
                   /\ logs[i].type # ""
                   /\ \A j \in 1..(i - 1) : logs[j].type # logs[i].type}
      types == [k \in 1..Cardinality(firsts) |-> logs[Ascending(firsts)[k]].type]
  IN IF Len(types) <= 1 THEN <<>> ELSE types

\* currentFilter === 'all' ? devLogs : devLogs.filter(l => l.type === currentFilter)
Filtered(logs, filter) ==
  Ascending({i \in 1..Len(logs) : filter = "all" \/ logs[i].type = filter})

\* Math.ceil(filtered.length / LOGS_PER_PAGE)
TotalPages(logs, filter) ==
  (Len(Filtered(logs, filter)) + LOGS_PER_PAGE - 1) \div LOGS_PER_PAGE

\* filtered.slice(start, start + LOGS_PER_PAGE)
PageSlice(logs, filter, page) ==
  LET filtered == Filtered(logs, filter)
      start == (page - 1) * LOGS_PER_PAGE
  IN SubSeq(filtered, start + 1, Min(start + LOGS_PER_PAGE, Len(filtered)))

\* renderDevLogs(): the cards and the page buttons
RenderDevLogs(logs, filter, page) ==
  /\ listed' = PageSlice(logs, filter, page)
  /\ pagination' = IF TotalPages(logs, filter) > 1
                   THEN <<TotalPages(logs, filter)>> ELSE <<>>

\* init() up to await loadGlitchFonts(): currentPage = 1, the UI controls,
\* the navigation, createOverlay()
Init_Start ==
  /\ initPc = "boot"
  /\ initPc' = "fonts"
  /\ currentPage' = 1
  /\ UNCHANGED <<loaderVars, contentVars, callVars, navVars, fontIndex, mapped,
                 processCalls, devLogs, currentFilter, listed, pagination,
                 filterButtons, overlayVars>>

\* one round of the loop: face.load() resolved, glitchFonts.push(name)
LoadGlitchFonts_Loaded ==
  /\ initPc = "fonts"
  /\ fontIndex < NumFontFiles
  /\ glitchFonts' = Append(glitchFonts, FontName(fontIndex))
  /\ fontIndex' = fontIndex + 1
  /\ UNCHANGED <<loaderVars, rawContent, handed, returned, callVars, navVars, initPc,
                 mapped, processCalls, devLogs, listVars, overlayVars>>

\* a loop inside one try: the first font that fails would end it
LoadGlitchFonts_Skipped_EndsLoop ==
  /\ initPc = "fonts"
  /\ fontIndex < NumFontFiles
  /\ fontIndex \in FontsThatMayFail
  /\ fontIndex' = NumFontFiles
  /\ UNCHANGED <<loaderVars, contentVars, callVars, navVars, initPc, mapped,
                 processCalls, devLogs, listVars, overlayVars>>

\* one round of the loop: cache.add or face.load() rejected, the catch warns
LoadGlitchFonts_Skipped ==
  /\ initPc = "fonts"
  /\ fontIndex < NumFontFiles
  /\ fontIndex \in FontsThatMayFail
  /\ fontIndex' = fontIndex + 1
  /\ UNCHANGED <<loaderVars, contentVars, callVars, navVars, initPc, mapped,
                 processCalls, devLogs, listVars, overlayVars>>

\* const result = await loadXML('logs.xml') and the two tests that follow
Init_LoadXML ==
  /\ initPc = "fonts"
  /\ fontIndex = NumFontFiles
  /\ \E r \in LoadXMLResults(feed) :
       IF ~r.success THEN /\ initPc' = "failed"
                          /\ UNCHANGED devLogs
       ELSE /\ devLogs' = r.data
            /\ initPc' = IF Len(r.data) = 0 THEN "failed" ELSE "map"
  /\ UNCHANGED <<loaderVars, contentVars, callVars, navVars, fontIndex, mapped,
                 processCalls, listVars, overlayVars>>

\* a callback that would write the processed content into the record it got
AfterCallback_InPlace(logs, i, content) == [logs EXCEPT ![i].content = content]

\* the array mapped over, after the callback ran on its i-th record: the
\* callback builds a new object { ...log, content }
AfterCallback(logs, i, content) == logs

\* log => ({ ...log, content: processContent(log.content) }) on one record
Init_ProcessContent ==
  /\ initPc = "map"
  /\ Len(mapped) < Len(devLogs)
  /\ LET i == Len(mapped) + 1
     IN \E rnd \in RandomSourcesFor(devLogs[i].content) :
        \E r \in {processContent(devLogs[i].content, glitchFonts, rnd)} :
          /\ mapped' = Append(mapped, [devLogs[i] EXCEPT !.content = r.returned])
          /\ devLogs' = AfterCallback(devLogs, i, r.returned)
  /\ processCalls' = processCalls + 1
  /\ UNCHANGED <<loaderVars, contentVars, callVars, navVars, initPc, fontIndex,
                 listVars, overlayVars>>

\* devLogs = (the mapped array); setupFilters(); renderDevLogs(); the list is
\* shown and init awaits setupFooter()
Init_Render ==
  /\ initPc = "map"
  /\ Len(mapped) = Len(devLogs)
  /\ devLogs' = mapped
  /\ filterButtons' = SetupFilters(mapped)
  /\ RenderDevLogs(mapped, currentFilter, currentPage)
  /\ initPc' = "footer"
  /\ UNCHANGED <<loaderVars, contentVars, callVars, navVars, fontIndex, mapped,
                 processCalls, currentFilter, currentPage, overlayVars>>

\* a filter click that would keep the page number
PageAfterFilter_Kept(page) == page

\* currentPage = 1 of the filter button's click handler
PageAfterFilter(page) == 1

\* click on the filter button of f
Click_Filter(f) ==
  /\ initPc \in {"footer", "live"}
  /\ \E k \in 1..Len(filterButtons) : f = "all" \/ f = filterButtons[k]
  /\ currentFilter' = f
  /\ currentPage' = PageAfterFilter(currentPage)
  /\ RenderDevLogs(devLogs, f, PageAfterFilter(currentPage))
  /\ UNCHANGED <<loaderVars, contentVars, callVars, navVars, initVars, devLogs,
                 filterButtons, overlayVars>>

\* click on #prev-page: if (currentPage > 1) { currentPage--; renderDevLogs(); }
Click_Prev ==
  /\ initPc \in {"footer", "live"}
  /\ pagination # <<>>
  /\ currentPage > 1
  /\ currentPage' = currentPage - 1
  /\ RenderDevLogs(devLogs, currentFilter, currentPage - 1)
  /\ UNCHANGED <<loaderVars, contentVars, callVars, navVars, initVars, devLogs,
                 currentFilter, filterButtons, overlayVars>>

\* a next-page handler that would not look at totalPages
NextPageAllowed_Always(page, totalPages) == TRUE

\* if (currentPage < totalPages) of the #next-page click handler
NextPageAllowed(page, totalPages) == page < totalPages

\* click on #next-page
Click_Next ==
  /\ initPc \in {"footer", "live"}
  /\ pagination # <<>>
  /\ NextPageAllowed(currentPage, pagination[1])
  /\ currentPage' = currentPage + 1
  /\ RenderDevLogs(devLogs, currentFilter, currentPage + 1)
  /\ UNCHANGED <<loaderVars, contentVars, callVars, navVars, initVars, devLogs,
                 currentFilter, filterButtons, overlayVars>>

\* a find that would return the last record of the id
FindLog_Last(logs, logId) ==
  IF \E i \in 1..Len(logs) : logs[i].id = logId
  THEN CHOOSE i \in 1..Len(logs) :
         logs[i].id = logId /\ \A j \in (i + 1)..Len(logs) : logs[j].id # logId
  ELSE 0

\* devLogs.find(l => l.id === String(logId)): its index, 0 when undefined
FindLog(logs, logId) == First({i \in 1..Len(logs) : logs[i].id = logId})

\* history.pushState(null, '', url): the entries after the current one go
PushState(hist, idx, hash) == Append(SubSeq(hist, 1, idx), hash)

\* openOverlay(logId), called with the session history hist at entry idx
OpenOverlay(logId, hist, idx) ==
  LET i == FindLog(devLogs, logId)
  IN IF i = 0
     THEN /\ UNCHANGED <<overlayOpen, overlayLog, scrollLocked>>
          /\ history' = hist
          /\ historyIndex' = idx
     ELSE /\ overlayOpen' = TRUE
          /\ overlayLog' = <<devLogs[i]>>
          /\ scrollLocked' = TRUE
          /\ history' = PushState(hist, idx, devLogs[i].id)
          /\ historyIndex' = idx + 1

\* closeOverlay()
CloseOverlay ==
  /\ overlayOpen' = FALSE
  /\ scrollLocked' = FALSE
  /\ history' = PushState(history, historyIndex, "")
  /\ historyIndex' = historyIndex + 1
  /\ UNCHANGED overlayLog

\* handleHashNavigation(), called with the session history hist at entry idx
HandleHashNavigation(hist, idx) ==
  IF hist[idx] # "" /\ Len(devLogs) > 0
  THEN OpenOverlay(hist[idx], hist, idx)
  ELSE /\ UNCHANGED <<overlayOpen, overlayLog, scrollLocked>>
       /\ history' = hist
       /\ historyIndex' = idx

\* the hashchange listener is registered and would open a post for the hash
HashOpens(hash) ==
  /\ initPc = "live"
  /\ hash # ""
  /\ FindLog(devLogs, hash) # 0

\* the entries a step to the hash takes of the bounded history
Room(idx, hash) == idx + (IF HashOpens(hash) THEN 1 ELSE 0) <= MaxHistory

\* setupFooter() is over: handleHashNavigation() and the hashchange listener
Init_HandleHash ==
  /\ initPc = "footer"
  /\ historyIndex < MaxHistory \/ FindLog(devLogs, history[historyIndex]) = 0
  /\ initPc' = "live"
  /\ HandleHashNavigation(history, historyIndex)
  /\ UNCHANGED <<loaderVars, contentVars, callVars, navVars, fontIndex, mapped,
                 processCalls, devLogs, listVars>>

\* click on Read More of the k-th card: openOverlay(log.id)
Click_Card(k) ==
  /\ initPc \in {"footer", "live"}
  /\ k \in 1..Len(listed)
  /\ historyIndex < MaxHistory
  /\ OpenOverlay(devLogs[listed[k]].id, history, historyIndex)
  /\ UNCHANGED <<loaderVars, contentVars, callVars, navVars, initVars, devLogs, listVars>>

\* click on the close button or on the backdrop
Click_Close ==
  /\ initPc \in {"fonts", "map", "footer", "live", "failed"}
  /\ historyIndex < MaxHistory
  /\ CloseOverlay
  /\ UNCHANGED <<loaderVars, contentVars, callVars, navVars, initVars, devLogs, listVars>>

\* keydown of Escape: if (overlay.classList.contains('open')) closeOverlay()
Key_Escape ==
  /\ overlayOpen
  /\ historyIndex < MaxHistory
  /\ CloseOverlay
  /\ UNCHANGED <<loaderVars, contentVars, callVars, navVars, initVars, devLogs, listVars>>

\* the hashchange event of a step to entry idx of hist, when a listener is on
HashChanged(hist, idx) ==
  IF initPc = "live" /\ hist[idx] # history[historyIndex]
  THEN HandleHashNavigation(hist, idx)
  ELSE /\ UNCHANGED <<overlayOpen, overlayLog, scrollLocked>>
       /\ history' = hist
       /\ historyIndex' = idx

\* the user goes to the url with another hash
Navigate_Hash(hash) ==
  /\ initPc \in {"footer", "live"}
  /\ hash # history[historyIndex]
  /\ Room(historyIndex + 1, hash)
  /\ HashChanged(PushState(history, historyIndex, hash), historyIndex + 1)
  /\ UNCHANGED <<loaderVars, contentVars, callVars, navVars, initVars, devLogs, listVars>>

\* the Back button of the browser
History_Back ==
  /\ initPc \in {"footer", "live"}
  /\ historyIndex > 1
  /\ HashChanged(history, historyIndex - 1)
  /\ UNCHANGED <<loaderVars, contentVars, callVars, navVars, initVars, devLogs, listVars>>

\* the Forward button of the browser
History_Forward ==
  /\ initPc \in {"footer", "live"}
  /\ historyIndex < Len(history)
  /\ Room(historyIndex + 1, history[historyIndex + 1])
  /\ HashChanged(history, historyIndex + 1)
  /\ UNCHANGED <<loaderVars, contentVars, callVars, navVars, initVars, devLogs, listVars>>

NextPage ==
  \/ Init_Start
  \/ LoadGlitchFonts_Loaded
  \/ LoadGlitchFonts_Skipped
  \/ Init_LoadXML
  \/ Init_ProcessContent
  \/ Init_Render
  \/ Init_HandleHash
  \/ \E f \in {"all", "a", "b"} : Click_Filter(f)
  \/ Click_Prev
  \/ Click_Next
  \/ \E k \in 1..LOGS_PER_PAGE : Click_Card(k)
  \/ Click_Close
  \/ Key_Escape
  \/ \E hash \in TypedHashes : Navigate_Hash(hash)
  \/ History_Back
  \/ History_Forward

SpecPage == InitPage /\ [][NextPage]_vars

\* the page used through its list controls only
NextList ==
  \/ Init_Start
  \/ LoadGlitchFonts_Loaded
  \/ LoadGlitchFonts_Skipped
  \/ Init_LoadXML
  \/ Init_ProcessContent
  \/ Init_Render
  \/ Init_HandleHash
  \/ \E f \in {"all", "a", "b"} : Click_Filter(f)
  \/ Click_Prev
  \/ Click_Next

SpecList == InitList /\ [][NextList]_vars

\* ------------------------------------------------------------------ the font pool
IsPrefix(a, b) == Len(a) <= Len(b) /\ SubSeq(b, 1, Len(a)) = a

\* the names of the pool are those of files tried so far, in the order of the
\* files, and no file that loads was left out
PoolOfFilesTried ==
  /\ \A k \in 1..Len(glitchFonts) :
       \E i \in 0..(fontIndex - 1) : glitchFonts[k] = FontName(i)
  /\ \A k, m \in 1..Len(glitchFonts) :
       k < m => \E i, j \in 0..(fontIndex - 1) :
                  i < j /\ glitchFonts[k] = FontName(i) /\ glitchFonts[m] = FontName(j)
  /\ \A i \in 0..(fontIndex - 1) :
       i \notin FontsThatMayFail => \E k \in 1..Len(glitchFonts) : glitchFonts[k] = FontName(i)

\* C22: the pool only grows at its end; it grows only in loadGlitchFonts,
\* before the first processContent call, and never after one; content is
\* processed, and the feed loaded, only when every file was tried; a file that
\* fails is skipped and the files after it are still loaded.
C22_PoolFilledBeforeContent ==
  /\ [][IsPrefix(glitchFonts, glitchFonts')]_vars
  /\ [][glitchFonts' # glitchFonts => (initPc = "fonts" /\ processCalls = 0)]_vars
  /\ [][processCalls > 0 => glitchFonts' = glitchFonts]_vars
  /\ [](PoolOfFilesTried)
  /\ []((processCalls > 0 \/ devLogs # <<>> \/ initPc \in {"map", "footer", "live", "failed"})
          => fontIndex = NumFontFiles)

\* the first and the last file failed, the five between them are in the pool,
\* and the feed was loaded and its post processed with that pool
C22_Witness ==
  /\ initPc = "live"
  /\ processCalls = 1
  /\ Len(devLogs) = 1
  /\ glitchFonts = <<"glitch-font-1", "glitch-font-2", "glitch-font-3",
                     "glitch-font-4", "glitch-font-5">>

\* ------------------------------------------------------------------ processContent and the page state
\* the record handed to the latest callback of the map, as the array holds it
\* after the call
LatestInput == devLogs'[processCalls']

\* C26: a processContent call only returns a string and writes nothing:
\* glitchFonts, devLogs, currentFilter, currentPage and the record whose
\* content was passed in are as before the call; the new record differs from
\* that record in its content only, which, when no random draw is made, is
\* the function of the content and the font pool; the records made so far
\* stay as they were made, and the records of the list are never changed
\* once the list is shown.
C26_ProcessContentWritesNothing ==
  /\ [][processCalls' # processCalls =>
          (/\ glitchFonts' = glitchFonts
           /\ devLogs' = devLogs
           /\ currentFilter' = currentFilter
           /\ currentPage' = currentPage
           /\ LatestInput = devLogs[processCalls']
           /\ IsPrefix(mapped, mapped')
           /\ Len(mapped') = processCalls'
           /\ mapped'[processCalls'] =
                [devLogs[processCalls'] EXCEPT
                   !.content = mapped'[processCalls'].content]
           /\ Cardinality(RandomSourcesFor(devLogs[processCalls'].content)) = 1 =>
                \A rnd \in RandomSourcesFor(devLogs[processCalls'].content) :
                  mapped'[processCalls'].content =
                    processContent(devLogs[processCalls'].content,
                                   glitchFonts, rnd).returned)
       ]_vars
  /\ [][initPc = "map" => (devLogs' = devLogs \/ devLogs' = mapped)]_vars
  /\ [][(initPc \in {"footer", "live"}) => devLogs' = devLogs]_vars

\* the callback ran on the second of two posts, whose content holds a censor
\* tag: the new record has the masked content, the array mapped over still
\* has the two records the loader made
C26_Witness ==
  /\ initPc = "map"
  /\ processCalls = 2
  /\ Len(devLogs) = 2
  /\ devLogs[2].content = "<censor>hi</censor>"
  /\ Len(mapped) = 2
  /\ mapped[2].content # devLogs[2].content
  /\ mapped[2].id = devLogs[2].id
  /\ currentFilter = "all" /\ currentPage = 1

\* ------------------------------------------------------------------ the page number
\* the list is on screen: renderDevLogs() ran
ListShown == initPc \in {"footer", "live"}

\* C27: whatever next, prev and filter clicks were made, the page number is
\* at least 1 and at most the number of pages of the current filter (1 when
\* there is none); a click on another filter sets it to 1; the cards on screen
\* are those of that page of that filter, and there is at least one whenever
\* the filter matches a post.
C27_PageWithinRange ==
  /\ [](/\ 1 <= currentPage
        /\ currentPage <= Max(1, TotalPages(devLogs, currentFilter))
        /\ ListShown =>
             /\ listed = PageSlice(devLogs, currentFilter, currentPage)
             /\ Len(Filtered(devLogs, currentFilter)) > 0 => listed # <<>>)
  /\ [][currentFilter' # currentFilter => currentPage' = 1]_vars

\* eleven posts, six of them of type a: the filter a was clicked, then next;
\* page 2 of 2 of that filter shows its sixth post
C27_Witness ==
  /\ ListShown
  /\ Len(devLogs) = 11
  /\ currentFilter = "a"
  /\ TotalPages(devLogs, "all") = 3
  /\ TotalPages(devLogs, "a") = 2
  /\ currentPage = 2
  /\ listed = <<6>>

\* ------------------------------------------------------------------ the post of the overlay
\* the hash of the url
Hash == history[historyIndex]

\* the url went to a hash that is the id of no post, or init looked at one
UnknownHashStep ==
  /\ Hash' # ""
  /\ FindLog(devLogs, Hash') = 0
  /\ <<history, historyIndex>>' # <<history, historyIndex>> \/ initPc' # initPc

\* C30: openOverlay(id) shows the first record, in document order, whose id
\* is id, so a later record of the same id is never the one shown; with an id
\* of no record it changes nothing: the overlay stays open or closed, with
\* the post and the scroll lock it had, and the url is not rewritten.
C30_FirstRecordOfIdOrNothing ==
  /\ [](overlayLog # <<>> =>
          \E i \in 1..Len(devLogs) :
            /\ overlayLog[1] = devLogs[i]
            /\ \A j \in 1..(i - 1) : devLogs[j].id # devLogs[i].id)
  /\ [][(overlayLog' # overlayLog \/ (overlayOpen' /\ ~overlayOpen)) =>
          (/\ overlayOpen' /\ scrollLocked'
           /\ FindLog(devLogs, Hash') # 0
           /\ overlayLog' = <<devLogs[FindLog(devLogs, Hash')]>>
           /\ history' = PushState(SubSeq(history', 1, historyIndex' - 1),
                                   historyIndex' - 1, overlayLog'[1].id))
       ]_vars
  /\ [][UnknownHashStep =>
          (/\ UNCHANGED <<overlayOpen, overlayLog, scrollLocked>>
           /\ history' \in {history, PushState(history, historyIndex, Hash')})
       ]_vars

\* two posts share the id 1: the overlay was opened and shows the first of
\* them; then the url went to #zz, the id of no post, and the overlay is as
\* it was
C30_Witness ==
  /\ initPc = "live"
  /\ Len(devLogs) = 2
  /\ devLogs[1].id = "1" /\ devLogs[2].id = "1"
  /\ devLogs[1] # devLogs[2]
  /\ overlayOpen /\ scrollLocked
  /\ overlayLog = <<devLogs[1]>>
  /\ history = <<"", "1", "zz">>
  /\ historyIndex = 3

\* ------------------------------------------------------------------ the overlay and the hash
\* C29: once the page is loaded, whatever card clicks, close actions and hash
\* changes were made, the overlay is open exactly when the hash of the url is
\* not empty, and the post it shows is the one whose id is the hash.
C29_OverlayTracksHash ==
  initPc = "live" =>
    /\ overlayOpen <=> Hash # ""
    /\ overlayOpen => (overlayLog # <<>> /\ overlayLog[1].id = Hash)

\* a card was clicked, then the Back button: the url has no hash and the
\* overlay is still open on the post, the page behind it locked
C29_OpenAfterBack ==
  ~(/\ initPc = "live"
    /\ history = <<"", "1">> /\ historyIndex = 1
    /\ overlayOpen /\ scrollLocked
    /\ overlayLog # <<>> /\ overlayLog[1].id = "1")

\* ------------------------------------------------------------------ main site navigation (app.js)
\* bound: the loadPage calls of a run
MaxLoads == 3

\* the pages of the menu, named after their type
Pages == {"home", "about", "experience"}

\* the page types whose renderer renderPage awaits
AwaitedTypes == {"home", "about", "contact"}

\* #main-content after mainContent.innerHTML = html of the page
PageShown(pageName) == [page |-> pageName, shows |-> "content"]

\* #main-content after the catch of loadPage
ErrorShown(pageName) == [page |-> pageName, shows |-> "error"]

\* updateActiveNavLink(pageName): the link of the page gets class active, every
\* other link loses it
updateActiveNavLink(pageName) == pageName

\* loadPage(pageName) up to its await loadJSON(...)
loadPage(pageName) ==
  /\ appCurrentPage' = pageName
  /\ activeNavLink' = updateActiveNavLink(pageName)
  /\ loads' = Append(loads, [pageName |-> pageName, pc |-> "fetching"])
  /\ UNCHANGED <<mainContent, documentTitle>>

\* the DOMContentLoaded handler: the menu is built, loadPage('home')
App_Start ==
  /\ loads = <<>>
  /\ loadPage("home")
  /\ UNCHANGED <<loaderVars, contentVars, callVars, pageVars>>

\* click on a menu link or on a call-to-action button: loadPage(page)
Nav_Click(pageName) ==
  /\ loads # <<>>
  /\ Len(loads) < MaxLoads
  /\ loadPage(pageName)
  /\ UNCHANGED <<loaderVars, contentVars, callVars, pageVars>>

\* loadJSON of the k-th call rejects: the catch of loadPage writes the error
LoadPage_Catch(k) ==
  /\ k \in 1..Len(loads)
  /\ loads[k].pc = "fetching"
  /\ loads' = [loads EXCEPT ![k].pc = "failed"]
  /\ mainContent' = ErrorShown(loads[k].pageName)
  /\ UNCHANGED <<loaderVars, contentVars, callVars, pageVars, appCurrentPage,
                 activeNavLink, documentTitle>>

\* loadJSON of the k-th call resolves: renderPage(pageData) runs up to its
\* first await, or to its end when the renderer of the type is not awaited,
\* and loadPage sets document.title
LoadPage_Resumes(k) ==
  /\ k \in 1..Len(loads)
  /\ loads[k].pc = "fetching"
  /\ documentTitle' = loads[k].pageName
  /\ IF loads[k].pageName \in AwaitedTypes
     THEN /\ loads' = [loads EXCEPT ![k].pc = "rendering"]
          /\ UNCHANGED mainContent
     ELSE /\ loads' = [loads EXCEPT ![k].pc = "done"]
          /\ mainContent' = PageShown(loads[k].pageName)
  /\ UNCHANGED <<loaderVars, contentVars, callVars, pageVars, appCurrentPage,
                 activeNavLink>>

\* the awaited renderer of the k-th call is over: mainContent.innerHTML = html
RenderPage_Resumes(k) ==
  /\ k \in 1..Len(loads)
  /\ loads[k].pc = "rendering"
  /\ loads' = [loads EXCEPT ![k].pc = "done"]
  /\ mainContent' = PageShown(loads[k].pageName)
  /\ UNCHANGED <<loaderVars, contentVars, callVars, pageVars, appCurrentPage,
                 activeNavLink, documentTitle>>

InitApp ==
  /\ LoaderIdle
  /\ ContentIdle
  /\ CallsIdle
  /\ NavIdle
  /\ PageIdle

NextApp ==
  \/ App_Start
  \/ \E pageName \in Pages : Nav_Click(pageName)
  \/ \E k \in 1..MaxLoads : LoadPage_Catch(k)
  \/ \E k \in 1..MaxLoads : LoadPage_Resumes(k)
  \/ \E k \in 1..MaxLoads : RenderPage_Resumes(k)

SpecApp == InitApp /\ [][NextApp]_vars

\* every loadPage call made is over
LoadsSettled == \A k \in 1..Len(loads) : loads[k].pc \in {"done", "failed"}

\* C28: when loadPage(q) was called before an earlier loadPage(p) was over,
\* then, once both are over and in whatever order they finished, the main
\* content is that of q, and q is currentPage and the active menu link.
C28_LastLoadShown ==
  (Len(loads) >= 2 /\ LoadsSettled) =>
    LET q == loads[Len(loads)].pageName
    IN /\ mainContent.page = q
       /\ appCurrentPage = q
       /\ activeNavLink = q

\* loadPage('home') then loadPage('about'); the json of about came first and
\* that of home last: about is currentPage and the active link, and the main
\* content and the title are those of home
C28_EarlierLoadShown ==
  ~(/\ loads = <<[pageName |-> "home", pc |-> "done"],
                 [pageName |-> "about", pc |-> "done"]>>
    /\ appCurrentPage = "about"
    /\ activeNavLink = "about"
    /\ mainContent = PageShown("home")
    /\ documentTitle = "home")

====
